---- MODULE Spec2Model ----
(***************************************************************************)
(* rancher/cherry-pick-action: the orchestrator state machine              *)
(* (internal/orchestrator), the target resolver (internal/labels), the     *)
(* branch namer (internal/github/naming.go) and the remote service as the  *)
(* orchestrator sees it through gh.Client and git.Workspace.               *)
(*                                                                         *)
(* Strings are sequences of one-character strings, so that trimming,       *)
(* prefix matching, lower-casing and formatting are computed, not assumed. *)
(***************************************************************************)
EXTENDS Integers, Sequences, FiniteSets, TLC

(***************************************************************************)
(* Go string primitives (package strings), on sequences of characters.     *)
(***************************************************************************)
UpperLetters == <<"A","B","C","D","E","F","G","H","I","J","K","L","M",
                  "N","O","P","Q","R","S","T","U","V","W","X","Y","Z">>

LowerLetters == <<"a","b","c","d","e","f","g","h","i","j","k","l","m",
                  "n","o","p","q","r","s","t","u","v","w","x","y","z">>

Digits == <<"0","1","2","3","4","5","6","7","8","9">>

SeqRange(s) == { s[i] : i \in 1..Len(s) }

IndexIn(c, s) == CHOOSE i \in 1..Len(s) : s[i] = c

\* unicode.ToLower restricted to ASCII letters
LowerChar(c) == IF c \in SeqRange(UpperLetters) THEN LowerLetters[IndexIn(c, UpperLetters)] ELSE c

\* strings.ToLower
ToLower(s) == [i \in 1..Len(s) |-> LowerChar(s[i])]

\* unicode.IsSpace restricted to ASCII
IsSpace(c) == c \in {" ", "\t", "\n", "\r"}

RECURSIVE TrimLeftSet(_, _)
\* strings.TrimLeft(s, cutset)
TrimLeftSet(s, cut) == IF s # <<>> /\ Head(s) \in cut THEN TrimLeftSet(Tail(s), cut) ELSE s

RECURSIVE TrimRightSet(_, _)
\* strings.TrimRight(s, cutset)
TrimRightSet(s, cut) ==
  IF s # <<>> /\ s[Len(s)] \in cut THEN TrimRightSet(SubSeq(s, 1, Len(s) - 1), cut) ELSE s

\* strings.Trim(s, cutset)
TrimSet(s, cut) == TrimRightSet(TrimLeftSet(s, cut), cut)

\* strings.TrimSpace
TrimSpace(s) == TrimSet(s, {" ", "\t", "\n", "\r"})

\* strings.HasPrefix
HasPrefix(s, p) == Len(s) >= Len(p) /\ SubSeq(s, 1, Len(p)) = p

\* strings.EqualFold restricted to ASCII
EqualFold(a, b) == ToLower(a) = ToLower(b)

\* strings.Contains
Contains(s, sub) == \E i \in 1..(Len(s) - Len(sub) + 1) : SubSeq(s, i, i + Len(sub) - 1) = sub

\* strings.ContainsAny
ContainsAny(s, chars) == \E i \in 1..Len(s) : s[i] \in chars

RECURSIVE ReplaceAll(_, _, _)
\* strings.ReplaceAll(s, old, new) for a non-empty old: leftmost, non-overlapping
ReplaceAll(s, old, new) ==
  IF ~Contains(s, old) THEN s
  ELSE LET Match(i) == SubSeq(s, i, i + Len(old) - 1) = old
           first == CHOOSE i \in 1..(Len(s) - Len(old) + 1) :
                      Match(i) /\ \A j \in 1..(i - 1) : ~Match(j)
       IN  SubSeq(s, 1, first - 1) \o new
             \o ReplaceAll(SubSeq(s, first + Len(old), Len(s)), old, new)

RECURSIVE Itoa(_)
\* fmt.Sprintf("%d", n) for n >= 0
Itoa(n) == IF n < 10 THEN <<Digits[n + 1]>> ELSE Itoa(n \div 10) \o <<Digits[(n % 10) + 1]>>

(***************************************************************************)
(* internal/labels: the target resolver.                                   *)
(***************************************************************************)
RefsHeads == <<"r","e","f","s","/","h","e","a","d","s","/">>

\* labels.NormalizeBranch
NormalizeBranch(branch) ==
  LET b1 == TrimSet(TrimSpace(branch), {"/"})
      b2 == IF Len(b1) >= Len(RefsHeads) /\ EqualFold(SubSeq(b1, 1, Len(RefsHeads)), RefsHeads)
            THEN SubSeq(b1, Len(RefsHeads) + 1, Len(b1))
            ELSE b1
      b3 == TrimSet(TrimSpace(b2), {"/"})
  IN  TrimSpace(b3)

\* a parseBranch that compares the prefix case-sensitively
parseBranchExactCase(labelName, prefix) ==
  LET name == TrimSpace(labelName)
  IN  IF name = <<>> THEN [ok |-> FALSE, branch |-> <<>>]
      ELSE IF ~HasPrefix(name, prefix) THEN [ok |-> FALSE, branch |-> <<>>]
      ELSE LET branch == NormalizeBranch(SubSeq(name, Len(prefix) + 1, Len(name)))
           IN  IF branch = <<>> THEN [ok |-> FALSE, branch |-> <<>>]
               ELSE [ok |-> TRUE, branch |-> branch]

\* labels.parseBranch: [ok, branch]; prefix is already trimmed by the caller
parseBranch(labelName, prefix) ==
  LET name == TrimSpace(labelName)
  IN  IF name = <<>> THEN [ok |-> FALSE, branch |-> <<>>]
      ELSE IF ~HasPrefix(ToLower(name), ToLower(prefix)) THEN [ok |-> FALSE, branch |-> <<>>]
      ELSE LET branch == NormalizeBranch(SubSeq(name, Len(prefix) + 1, Len(name)))
           IN  IF branch = <<>> THEN [ok |-> FALSE, branch |-> <<>>]
               ELSE [ok |-> TRUE, branch |-> branch]

RECURSIVE CollectLoop(_, _, _)
\* the loop of labels.CollectTargets: acc holds the targets appended so far
CollectLoop(labelNames, prefix, acc) ==
  IF labelNames = <<>> THEN acc
  ELSE LET p == parseBranch(Head(labelNames), prefix)
           seen == { acc[i].Branch : i \in 1..Len(acc) }
       IN  IF ~p.ok \/ p.branch \in seen
           THEN CollectLoop(Tail(labelNames), prefix, acc)
           ELSE CollectLoop(Tail(labelNames), prefix,
                            Append(acc, [LabelName |-> Head(labelNames), Branch |-> p.branch]))

\* labels.CollectTargets: [err, targets]
CollectTargets(labelNames, prefix) ==
  IF TrimSpace(prefix) = <<>>
  THEN [err |-> "label prefix cannot be empty", targets |-> <<>>]
  ELSE [err |-> "", targets |-> CollectLoop(labelNames, TrimSpace(prefix), <<>>)]

\* a validateBranchName without the check for '..'
validateBranchNameNoDots(branch) ==
  IF branch = <<>> THEN "branch cannot be empty"
  ELSE IF ContainsAny(branch, {" ", "\t", "\n", "\r"}) THEN "branch cannot contain whitespace"
  ELSE IF ContainsAny(branch, {"~", "^", ":", "?", "*", "[", "]", "@", "{", "\\"})
       THEN "branch contains forbidden git characters"
  ELSE ""

\* labels.validateBranchName: "" when the name is accepted
validateBranchName(branch) ==
  IF branch = <<>> THEN "branch cannot be empty"
  ELSE IF ContainsAny(branch, {" ", "\t", "\n", "\r"}) THEN "branch cannot contain whitespace"
  ELSE IF Contains(branch, <<".", ".">>) THEN "branch cannot contain '..'"
  ELSE IF ContainsAny(branch, {"~", "^", ":", "?", "*", "[", "]", "@", "{", "\\"})
       THEN "branch contains forbidden git characters"
  ELSE ""

\* labels.ValidateTargets: "" when every target is accepted
ValidateTargets(targets) ==
  IF \E i \in 1..Len(targets) : validateBranchName(targets[i].Branch) # ""
  THEN LET i == CHOOSE j \in 1..Len(targets) :
                  /\ validateBranchName(targets[j].Branch) # ""
                  /\ \A k \in 1..(j - 1) : validateBranchName(targets[k].Branch) = ""
       IN  validateBranchName(targets[i].Branch)
  ELSE ""

RECURSIVE MergeLoop(_, _)
\* the loop of labels.MergeTargets over the concatenated groups
MergeLoop(all, acc) ==
  IF all = <<>> THEN acc
  ELSE IF Head(all).Branch \in { acc[i].Branch : i \in 1..Len(acc) }
       THEN MergeLoop(Tail(all), acc)
       ELSE MergeLoop(Tail(all), Append(acc, Head(all)))

\* a merge that puts the second group before the first
MergeTargetsSecondFirst(g1, g2) == MergeLoop(g2 \o g1, <<>>)

\* labels.MergeTargets(g1, g2)
MergeTargets(g1, g2) == MergeLoop(g1 \o g2, <<>>)

(***************************************************************************)
(* internal/github/naming.go: the branch namer.                            *)
(***************************************************************************)
\* defaultBranchNaming
defaultBranchNaming ==
  [Prefix |-> <<"c","h","e","r","r","y","-","p","i","c","k">>,
   MaxLength |-> 63,
   HashLength |-> 8,
   SanitizeEmptyWith |-> <<"t","a","r","g","e","t">>]

\* the characters the regexp disallowedBranchChars lets through: [a-zA-Z0-9._/-]
AllowedBranchChars ==
  SeqRange(LowerLetters) \cup SeqRange(UpperLetters) \cup SeqRange(Digits) \cup {".", "/", "-"}

RECURSIVE ReplaceDisallowedRuns(_)
\* disallowedBranchChars.ReplaceAllString(s, "-"): each maximal run of disallowed
\* characters becomes one "-"
ReplaceDisallowedRuns(s) ==
  IF \A i \in 1..Len(s) : s[i] \in AllowedBranchChars THEN s
  ELSE LET Bad(i) == s[i] \notin AllowedBranchChars
           first == CHOOSE i \in 1..Len(s) : Bad(i) /\ \A j \in 1..(i - 1) : ~Bad(j)
           rest == TrimLeftSet(SubSeq(s, first + 1, Len(s)),
                               { c \in SeqRange(s) : c \notin AllowedBranchChars })
       IN  SubSeq(s, 1, first - 1) \o <<"-">> \o ReplaceDisallowedRuns(rest)

RECURSIVE CollapseAll(_, _, _)
\* for strings.Contains(s, old) { s = strings.ReplaceAll(s, old, new) }
CollapseAll(s, old, new) == IF Contains(s, old) THEN CollapseAll(ReplaceAll(s, old, new), old, new) ELSE s

\* a sanitizeBranchSegment that keeps the case of the segment
sanitizeBranchSegmentKeepCase(segment, config) ==
  LET s1 == TrimSpace(segment)
      s2 == ReplaceAll(s1, <<" ">>, <<"-">>)
      s3 == ReplaceDisallowedRuns(s2)
      s4 == TrimSet(s3, {"-", "/", "."})
      s5 == IF s4 = <<>> THEN config.SanitizeEmptyWith ELSE s4
      s7 == ReplaceAll(s5, <<"-", "/", "-">>, <<"/">>)
      s8 == CollapseAll(s7, <<"/", "/">>, <<"/">>)
      s9 == CollapseAll(s8, <<"-", "-">>, <<"-">>)
      s10 == TrimSet(s9, {"-"})
  IN  IF s10 = <<>> THEN config.SanitizeEmptyWith ELSE s10

\* sanitizeBranchSegment
sanitizeBranchSegment(segment, config) ==
  LET s1 == TrimSpace(segment)
      s2 == ReplaceAll(s1, <<" ">>, <<"-">>)
      s3 == ReplaceDisallowedRuns(s2)
      s4 == TrimSet(s3, {"-", "/", "."})
      s5 == IF s4 = <<>> THEN config.SanitizeEmptyWith ELSE s4
      s6 == ToLower(s5)
      s7 == ReplaceAll(s6, <<"-", "/", "-">>, <<"/">>)
      s8 == CollapseAll(s7, <<"/", "/">>, <<"/">>)
      s9 == CollapseAll(s8, <<"-", "-">>, <<"-">>)
      s10 == TrimSet(s9, {"-"})
  IN  IF s10 = <<>> THEN config.SanitizeEmptyWith ELSE s10

\* the byte of an ASCII character that can occur in a sanitized segment
ByteOf(c) ==
  IF c \in SeqRange(LowerLetters) THEN 96 + IndexIn(c, LowerLetters)
  ELSE IF c \in SeqRange(UpperLetters) THEN 64 + IndexIn(c, UpperLetters)
  ELSE IF c \in SeqRange(Digits) THEN 47 + IndexIn(c, Digits)
  ELSE CASE c = "-" -> 45 [] c = "." -> 46 [] c = "/" -> 47 [] c = "_" -> 95 [] OTHER -> 63

RECURSIVE Xor(_, _)
\* bitwise exclusive or of two naturals
Xor(a, b) == IF a = 0 THEN b ELSE IF b = 0 THEN a
             ELSE (((a % 2) + (b % 2)) % 2) + 2 * Xor(a \div 2, b \div 2)

\* FNV-1a, 32 bits, kept as two 16-bit halves [hi, lo] so that no product
\* leaves the range of the checker's integers.
\* offset basis 2166136261 = 0x811C9DC5, prime 16777619 = 2^24 + 0x193
FnvOffsetHi == 33052

FnvOffsetLo == 40389

FnvPrimeLow == 403

Half == 65536

\* one step of hash/fnv sum32a.Write: h = (h XOR b) * prime mod 2^32
FnvStep(h, b) ==
  LET lo == Xor(h.lo, b)
      pl == lo * FnvPrimeLow
  IN  [lo |-> pl % Half,
       hi |-> ((h.hi * FnvPrimeLow) + (pl \div Half) + ((lo % 256) * 256)) % Half]

RECURSIVE FnvWrite(_, _)
\* h.Write: one FnvStep per byte, in order; writing s is writing its first
\* half and then its second half
FnvWrite(h, s) ==
  IF s = <<>> THEN h
  ELSE IF Len(s) = 1 THEN FnvStep(h, ByteOf(s[1]))
  ELSE LET m == Len(s) \div 2
       IN  CHOOSE sum \in { FnvWrite(mid, SubSeq(s, m + 1, Len(s))) :
                              mid \in { FnvWrite(h, SubSeq(s, 1, m)) } } : TRUE

\* fnv.New32a(); h.Write([]byte(segment)); h.Sum32()
Fnv32a(s) == FnvWrite([hi |-> FnvOffsetHi, lo |-> FnvOffsetLo], s)

RECURSIVE HexOf(_)
\* fmt.Sprintf("%x", n) for 0 <= n < 2^16
HexOf(n) ==
  LET HexDigits == <<"0","1","2","3","4","5","6","7","8","9","a","b","c","d","e","f">>
  IN  IF n < 16 THEN <<HexDigits[n + 1]>> ELSE HexOf(n \div 16) \o <<HexDigits[(n % 16) + 1]>>

RECURSIVE PadLeft(_, _, _)
PadLeft(s, width, c) == IF Len(s) >= width THEN s ELSE PadLeft(<<c>> \o s, width, c)

\* fmt.Sprintf("%0*x", width, h): at least width digits, never fewer than the value needs
HexPadded(h, width) ==
  LET digits == IF h.hi = 0 THEN HexOf(h.lo) ELSE HexOf(h.hi) \o PadLeft(HexOf(h.lo), 4, "0")
  IN  PadLeft(digits, width, "0")

\* shortenTargetSegment
shortenTargetSegment(segment, available, config) ==
  IF available <= 0 THEN config.SanitizeEmptyWith
  ELSE IF Len(segment) <= available THEN segment
  ELSE LET hashLen == IF config.HashLength <= 0 THEN 8 ELSE config.HashLength
           hex == HexPadded(Fnv32a(segment), hashLen)
           suffix == <<"-">> \o hex
           baseLen == available - Len(suffix)
       IN  IF Len(suffix) > available
           THEN (IF Len(hex) >= available THEN SubSeq(hex, 1, available) ELSE hex)
           ELSE IF baseLen <= 0 THEN SubSeq(suffix, Len(suffix) - available + 1, Len(suffix))
           ELSE LET cut == IF Len(segment) > baseLen THEN SubSeq(segment, 1, baseLen) ELSE segment
                    trimmed == TrimRightSet(cut, {"-", ".", "/"})
                    fallback == IF Len(config.SanitizeEmptyWith) > baseLen
                                THEN SubSeq(config.SanitizeEmptyWith, 1, baseLen)
                                ELSE config.SanitizeEmptyWith
                    base == IF trimmed = <<>> THEN fallback ELSE trimmed
                IN  TrimRightSet(base, {"-", ".", "/"}) \o suffix

\* the body of BranchNameForCherryPick once the options are merged into config
BranchNameWith(targetBranch, sourcePR, config) ==
  LET sanitized == sanitizeBranchSegment(targetBranch, config)
      prSegment == <<"p", "r", "-">> \o Itoa(sourcePR)
      branch == config.Prefix \o <<"/">> \o sanitized \o <<"/">> \o prSegment
      avail == config.MaxLength - Len(config.Prefix) - 1 - Len(prSegment) - 1
      available == IF avail < 1 THEN 1 ELSE avail
  IN  IF Len(branch) <= config.MaxLength THEN branch
      ELSE config.Prefix \o <<"/">> \o shortenTargetSegment(sanitized, available, config)
             \o <<"/">> \o prSegment

\* BranchNameForCherryPick, lines 31-46: opts is the variadic argument, a
\* sequence of BranchNamingOptions of which the first one counts
MergeOptions(opts) ==
  IF Len(opts) = 0 THEN defaultBranchNaming
  ELSE LET o == opts[1]
       IN  [Prefix |-> IF o.Prefix # <<>> THEN o.Prefix ELSE defaultBranchNaming.Prefix,
            MaxLength |-> IF o.MaxLength > 0 THEN o.MaxLength ELSE defaultBranchNaming.MaxLength,
            HashLength |-> IF o.HashLength > 0 THEN o.HashLength ELSE defaultBranchNaming.HashLength,
            SanitizeEmptyWith |-> IF o.SanitizeEmptyWith # <<>> THEN o.SanitizeEmptyWith
                                  ELSE defaultBranchNaming.SanitizeEmptyWith]

\* BranchNameForCherryPick(targetBranch, sourcePR, opts...)
BranchNameForCherryPickOpts(targetBranch, sourcePR, opts) ==
  BranchNameWith(targetBranch, sourcePR, MergeOptions(opts))

\* BranchNameForCherryPick(targetBranch, sourcePR) with no options
BranchNameForCherryPick(targetBranch, sourcePR) ==
  BranchNameWith(targetBranch, sourcePR, defaultBranchNaming)

(***************************************************************************)
(* Inputs of the orchestrator model: the source pull request, the          *)
(* configuration and the remote repository, drawn from small sets.         *)
(***************************************************************************)
\* number of ProcessPullRequest runs on the same source pull request
MaxRuns == 2

\* number of calls (remote or workspace) that fail transiently in one behaviour
MaxFaults == 1

\* number of trigger labels a human removes from the source pull request
MaxRemovals == 1

\* the source pull request's number
PRNumber == 7

Runs == 1..MaxRuns

Owner == "rancher"

Repo == "repo"

\* a configured label prefix (INPUT_LABEL_PREFIX), shorter than the default
Pfx == <<"c", "p", "/">>

R1 == <<"r", "1">>

R2 == <<"r", "2">>

LblR1 == Pfx \o R1

LblR2 == Pfx \o R2

LblBug == <<"b", "u", "g">>

\* the rest of the done label of r1, left by an earlier completed cherry-pick
DoneR1 == <<"d", "o", "n", "e", "/">> \o R1

\* the merge commit and the head commit of the source pull request
SHA1 == <<"m", "1">>

SHA2 == <<"h", "1">>

\* a branch name that validateBranchName rejects ("r..2") and its trigger label
BadBranch == <<"r", ".", ".", "2">>

LblBad == Pfx \o BadBranch

\* a label prefix of whitespace only
BlankPrefix == <<" ">>

VARIABLES
  cfg,            \* orchestrator.Config of every run
  overlap,        \* whether a run may start while another is in progress
  prMeta,         \* remote: the fixed part of the source pull request
  prLabels,       \* remote: the labels on the source pull request, in order
  remoteBranches, \* remote: existing branches
  commitsOn,      \* remote: (branch, sha) pairs, the commits present on branches
  conflictsOn,    \* the target branches on which git cherry-pick conflicts
  remotePRs,      \* remote: the pull requests opened so far, in order
  remoteHeads,    \* remote: the cherry-pick branches pushed so far
  run,            \* per run: the locals of ProcessPullRequest and its position
  log,            \* per run: the calls made on gh.Client and git.Workspace, in order
  faults,         \* transient failures injected so far
  removals,       \* labels removed by a human so far
  namer,          \* a call of a function of package gh: its arguments and its result
  git             \* the git ShellExecutor: a call with its context and its progress, or a workspace

vars == <<cfg, overlap, prMeta, prLabels, remoteBranches, commitsOn, conflictsOn,
          remotePRs, remoteHeads, run, log, faults, removals, namer, git>>

\* what no step of ProcessPullRequest changes
inputs == <<cfg, overlap, prMeta, remoteBranches, commitsOn, conflictsOn, namer, git>>

\* no call of BranchNameForCherryPick apart from those of executeTarget
NoCall == [target |-> <<>>, pr |-> 0, opts |-> <<>>, name |-> <<>>]

\* no call on the ShellExecutor apart from those behind git.Workspace
NoGit == [pc |-> "idle"]

\* a nil *gh.CherryPickPR
NoPR == [Number |-> 0, Head |-> <<>>, Base |-> <<>>]

NoReason == [msg |-> "", arg |-> <<>>, err |-> ""]

NoResult == [err |-> "", Skipped |-> FALSE, SkippedReason |-> "", Targets |-> <<>>]

\* the error Runner.Run returns: err "" is nil; failed lists the failed branches
NoExit == [err |-> "", failed |-> <<>>]

NoTarget ==
  [Target |-> [LabelName |-> <<>>, Branch |-> <<>>], Status |-> "", Reason |-> NoReason,
   ExistingPR |-> NoPR, CreatedPR |-> NoPR]

IdleRun ==
  [pc |-> "idle", Labels |-> <<>>, firstTargets |-> <<>>, targets |-> <<>>, sourceCommit |-> <<>>, plan |-> <<>>,
   evaluated |-> <<>>, i |-> 0, cur |-> NoTarget, branchName |-> <<>>, cherryErr |-> "",
   workspace |-> FALSE, ret |-> NoResult, exit |-> NoExit]

\* the state after New(cfg, ghClient, gitExecutor, logger) with both a GitHub
\* client and a git executor, before any run; the remote holds no cherry-pick
\* pull request yet
InitCommon ==
  LET
      \* label lists the source pull request starts with
      LabelLists ==
        { <<LblR1>>, <<LblR1, LblBug, LblR2>>, <<LblBug>>, <<LblR1, Pfx \o DoneR1>>, <<LblR1, LblBad>> }
      \* orchestrator.Config values
      Configs ==
        { [LabelPrefix |-> Pfx, ConflictStrategy |-> cs, DryRun |-> dr, TargetBranches |-> tb] :
            cs \in {"fail", "placeholder-pr"}, dr \in BOOLEAN, tb \in { <<>>, <<R2>> } }
        \cup { [LabelPrefix |-> BlankPrefix, ConflictStrategy |-> "fail", DryRun |-> FALSE, TargetBranches |-> tb] :
                 tb \in { <<>>, <<R2>> } }
        \cup { [LabelPrefix |-> Pfx, ConflictStrategy |-> "fail", DryRun |-> FALSE,
                 TargetBranches |-> <<R2, BadBranch>>] }
      \* the parts of gh.PRMetadata that do not change during a behaviour
      PRShapes ==
        { [IsMerged |-> TRUE,  IsFromFork |-> FALSE, MergeSHA |-> SHA1, HeadSHA |-> SHA2, Assignees |-> <<"alice">>],
          [IsMerged |-> TRUE,  IsFromFork |-> FALSE, MergeSHA |-> <<>>, HeadSHA |-> SHA2, Assignees |-> <<>>],
          [IsMerged |-> TRUE,  IsFromFork |-> FALSE, MergeSHA |-> <<>>, HeadSHA |-> <<>>,   Assignees |-> <<>>],
          [IsMerged |-> TRUE,  IsFromFork |-> TRUE,  MergeSHA |-> SHA1, HeadSHA |-> SHA2, Assignees |-> <<>>],
          [IsMerged |-> FALSE, IsFromFork |-> TRUE,  MergeSHA |-> <<>>, HeadSHA |-> SHA2, Assignees |-> <<>>] }
      \* the branches of the remote repository
      BranchSets == { {R1, R2}, {R2} }
      \* the (branch, commit) pairs already present on the remote
      CommitSets == { {}, { <<R1, SHA1>> } }
      \* the target branches on which the cherry-pick conflicts
      ConflictSets == { {}, {R1} }
  IN
  /\ cfg \in Configs
  /\ prMeta \in PRShapes
  /\ prLabels \in LabelLists
  /\ remoteBranches \in BranchSets
  /\ commitsOn \in CommitSets
  /\ conflictsOn \in ConflictSets
  /\ remotePRs = <<>>
  /\ remoteHeads = {}
  /\ run = [r \in Runs |-> IdleRun]
  /\ log = [r \in Runs |-> <<>>]
  /\ faults = 0
  /\ removals = 0
  /\ namer = NoCall
  /\ git = NoGit

\* runs of the action are serialized (one workflow run at a time)
Init == InitCommon /\ overlap = FALSE

\* two label events on the merged pull request start workflow runs that overlap
InitOverlap ==
  /\ InitCommon
  /\ overlap = TRUE
  /\ ~cfg.DryRun /\ cfg.TargetBranches = <<>>
  /\ prMeta.IsMerged /\ ~prMeta.IsFromFork /\ prMeta.MergeSHA # <<>>
  /\ prLabels = <<LblR1>>
  /\ commitsOn = {}

(***************************************************************************)
(* internal/orchestrator/orchestrator.go                                   *)
(***************************************************************************)
TargetStatusPending == "pending"

TargetStatusDryRun == "dry_run"

TargetStatusSucceeded == "succeeded"

TargetStatusFailed == "failed"

TargetStatusPlaceholderPR == "placeholder_pr"

TargetStatusSkippedNoBranch == "skipped_missing_branch"

TargetStatusSkippedExistingPR == "skipped_existing_pr"

TargetStatusSkippedAlreadyPresent == "skipped_commit_present"

conflictStrategyPlaceholderPR == "placeholder-pr"

\* doneLabel := fmt.Sprintf("%sdone/%s", o.cfg.LabelPrefix, target.Branch)
DoneLabel(prefix, branch) == prefix \o <<"d", "o", "n", "e", "/">> \o branch

RECURSIVE ManualLoop(_)
\* the loop of applyManualTargets building the manual targets
ManualLoop(branches) ==
  IF branches = <<>> THEN <<>>
  ELSE LET trimmed == TrimSpace(Head(branches))
           normalized == NormalizeBranch(trimmed)
       IN  IF trimmed = <<>> \/ normalized = <<>>
           THEN ManualLoop(Tail(branches))
           ELSE <<[LabelName |-> <<"i", "n", "p", "u", "t", ":">> \o trimmed, Branch |-> normalized]>>
                  \o ManualLoop(Tail(branches))

\* applyManualTargets
applyManualTargets(labelTargets, branches) ==
  IF Len(branches) = 0 THEN labelTargets
  ELSE IF Len(ManualLoop(branches)) = 0 THEN labelTargets
  ELSE MergeTargets(labelTargets, ManualLoop(branches))

\* hasPendingTargets
hasPendingTargets(results) == \E k \in 1..Len(results) : results[k].Status = TargetStatusPending

\* a filterCherryPickLabels that copies every label
filterCherryPickLabelsAll(all, prefix) == all

\* filterCherryPickLabels
filterCherryPickLabels(all, prefix) ==
  LET trimmedPrefix == ToLower(TrimSpace(prefix))
      Keep(label) == ~(trimmedPrefix # <<>> /\ HasPrefix(ToLower(TrimSpace(label)), trimmedPrefix))
  IN  SelectSeq(all, Keep)

\* buildMetadataComment: the marker, as its formatted fields
buildMetadataComment(owner, repo, number, branch) ==
  [part |-> "cherry-pick-of",
   source |-> IF owner # "" /\ repo # "" THEN <<owner, repo>>
              ELSE IF repo = "" THEN <<"unknown-repo">> ELSE <<repo>>,
   number |-> number, branch |-> branch, text |-> ""]

\* buildCreatePROptions; the body is the sequence of its formatted parts
buildCreatePROptions(labels, target, branchName) ==
  [Title |-> [branch |-> target.Branch, title |-> "source title"],
   Body |-> <<buildMetadataComment(Owner, Repo, PRNumber, target.Branch),
              [part |-> "cherry-pick-line", source |-> <<>>, number |-> PRNumber,
               branch |-> target.Branch, text |-> ""],
              [part |-> "original-body", source |-> <<>>, number |-> 0,
               branch |-> <<>>, text |-> "source body"],
              [part |-> "footer", source |-> <<>>, number |-> 0, branch |-> <<>>, text |-> ""]>>,
   Head |-> branchName,
   Base |-> target.Branch,
   Draft |-> FALSE,
   Labels |-> filterCherryPickLabels(labels, cfg.LabelPrefix),
   Assignees |-> prMeta.Assignees,
   MaintainerCanModify |-> TRUE]

\* a decoratePlaceholderBody that leaves the body as it is
decoratePlaceholderBodyPlain(original, prNumber, branch, cherryErr) == original

\* decoratePlaceholderBody
decoratePlaceholderBody(original, prNumber, branch, cherryErr) ==
  <<[part |-> "conflict-notice", source |-> <<>>, number |-> prNumber, branch |-> branch, text |-> ""],
    [part |-> "resolve-manually", source |-> <<>>, number |-> 0, branch |-> <<>>, text |-> ""]>>
  \o (IF cherryErr # ""
      THEN <<[part |-> "git-reported", source |-> <<>>, number |-> 0, branch |-> <<>>, text |-> cherryErr]>>
      ELSE <<>>)
  \o original

(***************************************************************************)
(* The steps of ProcessPullRequest.  Every call on gh.Client or            *)
(* git.Workspace is one step; a call either answers or fails transiently.  *)
(* For a step X, XThen is what the code does with the call's answer.       *)
(***************************************************************************)
\* the outcomes of a call: TRUE it answers, FALSE it returns an error
Outcomes == IF faults < MaxFaults THEN {TRUE, FALSE} ELSE {TRUE}

Charge(ok) == faults' = IF ok THEN faults ELSE faults + 1

Entry(op, target, arg, ok) == [op |-> op, target |-> target, arg |-> arg, ok |-> ok]

Record(r, op, target, arg, ok) == log' = [log EXCEPT ![r] = Append(@, Entry(op, target, arg, ok))]

SetRun(r, rr) == run' = [run EXCEPT ![r] = rr]

Active(r) == run[r].pc \notin {"idle", "returned"}

\* a Runner.Run that returns nil whatever the statuses of the targets
RunReturnIgnoreFailed(result) ==
  IF result.err # "" THEN [err |-> "process pull request", failed |-> <<>>] ELSE NoExit

\* Runner.Run from the return of ProcessPullRequest on: the step summary, the
\* action outputs and the summary comment are best effort and only logged
RunReturn(result) ==
  LET IsFailed(t) == t.Status = "failed"
      failedTargets == SelectSeq(result.Targets, IsFailed)
  IN  IF result.err # "" THEN [err |-> "process pull request", failed |-> <<>>]
      ELSE IF result.Skipped THEN NoExit
      ELSE IF Len(failedTargets) > 0
           THEN [err |-> "cherry-pick failed for target(s)",
                 failed |-> [k \in 1..Len(failedTargets) |-> failedTargets[k].Target.Branch]]
      ELSE NoExit

\* ProcessPullRequest returns result to Runner.Run, which returns in turn
Return(rr, result) == [rr EXCEPT !.pc = "returned", !.ret = result, !.exit = RunReturn(result)]

\* return Result{}, fmt.Errorf(...)
ReturnError(rr, msg) == Return(rr, [NoResult EXCEPT !.err = msg])

\* a whole-run skip that gives no reason
ReturnSkippedNoReason(rr, reason) == Return(rr, [NoResult EXCEPT !.Skipped = TRUE])

\* return Result{Skipped: true, SkippedReason: reason}, nil
ReturnSkipped(rr, reason) ==
  Return(rr, [NoResult EXCEPT !.Skipped = TRUE, !.SkippedReason = reason])

\* return Result{Targets: plan}, nil
ReturnTargets(rr, plan) ==
  Return([rr EXCEPT !.plan = plan], [NoResult EXCEPT !.Targets = plan])

\* a dry-run loop that marks every entry of the plan, whatever its status
DryRunPlanAll(plan) ==
  [k \in 1..Len(plan) |->
     [plan[k] EXCEPT !.Status = TargetStatusDryRun,
                     !.Reason = [NoReason EXCEPT !.msg = "dry run enabled"]]]

\* the dry-run loop of ProcessPullRequest
DryRunPlan(plan) ==
  [k \in 1..Len(plan) |->
     IF plan[k].Status = TargetStatusPending
     THEN [plan[k] EXCEPT !.Status = TargetStatusDryRun,
                          !.Reason = [NoReason EXCEPT !.msg = "dry run enabled"]]
     ELSE plan[k]]

\* an executePendingTargets that takes the last pending entry first
NextPendingLast(plan, k) ==
  IF \E j \in (k + 1)..Len(plan) : plan[j].Status = TargetStatusPending
  THEN CHOOSE j \in (k + 1)..Len(plan) :
         /\ plan[j].Status = TargetStatusPending
         /\ \A h \in (j + 1)..Len(plan) : plan[h].Status # TargetStatusPending
  ELSE 0

\* the index of the next pending entry of plan after position k, 0 if none
NextPending(plan, k) ==
  IF \E j \in (k + 1)..Len(plan) : plan[j].Status = TargetStatusPending
  THEN CHOOSE j \in (k + 1)..Len(plan) :
         /\ plan[j].Status = TargetStatusPending
         /\ \A h \in (k + 1)..(j - 1) : plan[h].Status # TargetStatusPending
  ELSE 0

\* ProcessPullRequest without the dry-run return
AfterEvaluateNoDryRun(rr) ==
  LET ev == [rr EXCEPT !.evaluated = rr.plan]
  IN  IF ~hasPendingTargets(rr.plan) THEN ReturnTargets(ev, rr.plan)
      ELSE [ev EXCEPT !.i = NextPending(rr.plan, 0), !.pc = "Prepare"]

\* ProcessPullRequest after evaluateTargets returned the plan (kept in evaluated)
AfterEvaluate(rr) ==
  LET ev == [rr EXCEPT !.evaluated = rr.plan]
  IN  IF ~hasPendingTargets(rr.plan) THEN ReturnTargets(ev, rr.plan)
      ELSE IF cfg.DryRun THEN ReturnTargets(ev, DryRunPlan(rr.plan))
      ELSE [ev EXCEPT !.i = NextPending(rr.plan, 0), !.pc = "Prepare"]

\* results = append(results, status); continue -- and what follows the loop
EvalAppend(rr, status) ==
  LET plan2 == Append(rr.plan, status)
  IN  IF rr.i < Len(rr.targets)
      THEN [rr EXCEPT !.plan = plan2, !.i = rr.i + 1, !.pc = "HasLabel"]
      ELSE AfterEvaluate([rr EXCEPT !.plan = plan2])

\* an executePendingTargets that makes ProcessPullRequest return the error of a failed target
ExecStoreReturnError(rr, target) ==
  LET plan2 == [rr.plan EXCEPT ![rr.i] = target]
      j == NextPending(plan2, rr.i)
      rr2 == [rr EXCEPT !.cherryErr = "", !.cur = NoTarget, !.branchName = <<>>, !.workspace = FALSE]
  IN  IF target.Status = "failed" THEN ReturnError(rr2, "execute target")
      ELSE IF j = 0 THEN ReturnTargets(rr2, plan2)
      ELSE [rr2 EXCEPT !.plan = plan2, !.i = j, !.pc = "Prepare"]

\* an executePendingTargets that stops at the first failed target
ExecStoreStopOnFailure(rr, target) ==
  LET plan2 == [rr.plan EXCEPT ![rr.i] = target]
      j == IF target.Status = "failed" THEN 0 ELSE NextPending(plan2, rr.i)
      rr2 == [rr EXCEPT !.cherryErr = "", !.cur = NoTarget, !.branchName = <<>>, !.workspace = FALSE]
  IN  IF j = 0 THEN ReturnTargets(rr2, plan2)
      ELSE [rr2 EXCEPT !.plan = plan2, !.i = j, !.pc = "Prepare"]

\* executePendingTargets: updated[i] = the executed target, then the next pending one
ExecStore(rr, target) ==
  LET plan2 == [rr.plan EXCEPT ![rr.i] = target]
      j == NextPending(plan2, rr.i)
      rr2 == [rr EXCEPT !.cherryErr = "", !.cur = NoTarget, !.branchName = <<>>, !.workspace = FALSE]
  IN  IF j = 0 THEN ReturnTargets(rr2, plan2)
      ELSE [rr2 EXCEPT !.plan = plan2, !.i = j, !.pc = "Prepare"]

\* pr.Labels resolved into targets, with the manual overrides
Resolve(labels) ==
  LET ct == CollectTargets(labels, cfg.LabelPrefix)
  IN  [err |-> ct.err, targets |-> applyManualTargets(ct.targets, cfg.TargetBranches)]

\* a workflow run of the action begins
StartRun(r) ==
  /\ run[r].pc = "idle"
  /\ \A q \in Runs : q < r => run[q].pc # "idle"
  /\ overlap \/ \A q \in Runs : ~Active(q)
  /\ SetRun(r, [run[r] EXCEPT !.pc = "GetPullRequest"])
  /\ UNCHANGED <<inputs, prLabels, remotePRs, remoteHeads, log, faults, removals>>

\* a ProcessPullRequest that checks for a fork before it checks for the merge
GetPullRequestThenForkFirst(rr, ok, labels) ==
  LET fetched == [rr EXCEPT !.Labels = labels]
      res == Resolve(labels)
  IN  IF ~ok THEN ReturnError(rr, "get pull request")
      ELSE IF prMeta.IsFromFork
           THEN ReturnSkipped(fetched, "pull request originates from a fork; create a branch in the base repository before labeling")
      ELSE IF ~prMeta.IsMerged THEN ReturnSkipped(fetched, "not merged")
      ELSE IF res.err # "" THEN ReturnError(fetched, "collect targets")
      ELSE IF Len(res.targets) = 0 THEN ReturnSkipped(fetched, "no targets")
      ELSE [fetched EXCEPT !.firstTargets = res.targets, !.targets = res.targets, !.pc = "Refresh"]

\* ProcessPullRequest from the answer of the first GetPullRequest to the first targets
GetPullRequestThen(rr, ok, labels) ==
  LET fetched == [rr EXCEPT !.Labels = labels]
      res == Resolve(labels)
  IN  IF ~ok THEN ReturnError(rr, "get pull request")
      ELSE IF ~prMeta.IsMerged THEN ReturnSkipped(fetched, "not merged")
      ELSE IF prMeta.IsFromFork
           THEN ReturnSkipped(fetched, "pull request originates from a fork; create a branch in the base repository before labeling")
      ELSE IF res.err # "" THEN ReturnError(fetched, "collect targets")
      ELSE IF Len(res.targets) = 0 THEN ReturnSkipped(fetched, "no targets")
      ELSE [fetched EXCEPT !.firstTargets = res.targets, !.targets = res.targets, !.pc = "Refresh"]

\* ProcessPullRequest: o.gh.GetPullRequest
GetPullRequest(r) ==
  /\ run[r].pc = "GetPullRequest"
  /\ \E ok \in Outcomes :
       /\ Charge(ok)
       /\ Record(r, "GetPullRequest", <<>>, <<>>, ok)
       /\ SetRun(r, GetPullRequestThen(run[r], ok, prLabels))
  /\ UNCHANGED <<inputs, prLabels, remotePRs, remoteHeads, removals>>

\* a ProcessPullRequest that does not validate the refreshed targets
RefreshThenNoValidate(rr, ok, labels) ==
  LET fetched == [rr EXCEPT !.Labels = labels]
      res == Resolve(labels)
      refreshed == [fetched EXCEPT !.targets = res.targets]
      sourceCommit == IF prMeta.MergeSHA = <<>> THEN prMeta.HeadSHA ELSE prMeta.MergeSHA
  IN  IF ~ok THEN ReturnError(rr, "refresh pull request")
      ELSE IF res.err # "" THEN ReturnError(fetched, "collect targets after refresh")
      ELSE IF Len(res.targets) = 0 THEN ReturnSkipped(refreshed, "no targets")
      ELSE IF sourceCommit = <<>>
           THEN ReturnError(refreshed, "source commit SHA could not be determined")
      ELSE [refreshed EXCEPT !.sourceCommit = sourceCommit, !.plan = <<>>, !.i = 1, !.pc = "HasLabel"]

\* a ProcessPullRequest that fetches again but keeps the targets of the first fetch
RefreshThenStale(rr, ok, labels) ==
  LET fetched == [rr EXCEPT !.Labels = labels]
      res == Resolve(labels)
      sourceCommit == IF prMeta.MergeSHA = <<>> THEN prMeta.HeadSHA ELSE prMeta.MergeSHA
  IN  IF ~ok THEN ReturnError(rr, "refresh pull request")
      ELSE IF res.err # "" THEN ReturnError(fetched, "collect targets after refresh")
      ELSE IF ValidateTargets(rr.targets) # "" THEN ReturnError(fetched, "validate targets")
      ELSE IF sourceCommit = <<>>
           THEN ReturnError(fetched, "source commit SHA could not be determined")
      ELSE [fetched EXCEPT !.sourceCommit = sourceCommit, !.plan = <<>>, !.i = 1, !.pc = "HasLabel"]

\* ProcessPullRequest from the answer of the refresh to the first target of evaluateTargets
RefreshThen(rr, ok, labels) ==
  LET fetched == [rr EXCEPT !.Labels = labels]
      res == Resolve(labels)
      refreshed == [fetched EXCEPT !.targets = res.targets]
      sourceCommit == IF prMeta.MergeSHA = <<>> THEN prMeta.HeadSHA ELSE prMeta.MergeSHA
  IN  IF ~ok THEN ReturnError(rr, "refresh pull request")
      ELSE IF res.err # "" THEN ReturnError(fetched, "collect targets after refresh")
      ELSE IF Len(res.targets) = 0 THEN ReturnSkipped(refreshed, "no targets")
      ELSE IF ValidateTargets(res.targets) # "" THEN ReturnError(refreshed, "validate targets")
      ELSE IF sourceCommit = <<>>
           THEN ReturnError(refreshed, "source commit SHA could not be determined")
      ELSE [refreshed EXCEPT !.sourceCommit = sourceCommit, !.plan = <<>>, !.i = 1, !.pc = "HasLabel"]

\* ProcessPullRequest: the second o.gh.GetPullRequest
Refresh(r) ==
  /\ run[r].pc = "Refresh"
  /\ \E ok \in Outcomes :
       /\ Charge(ok)
       /\ Record(r, "GetPullRequest", <<>>, <<>>, ok)
       /\ SetRun(r, RefreshThen(run[r], ok, prLabels))
  /\ UNCHANGED <<inputs, prLabels, remotePRs, remoteHeads, removals>>

\* status := TargetResult{Target: target, Status: TargetStatusPending}
PendingStatus(target) ==
  [Target |-> target, Status |-> TargetStatusPending, Reason |-> NoReason,
   ExistingPR |-> NoPR, CreatedPR |-> NoPR]

\* the current target of the evaluateTargets loop
EvalTarget(rr) == rr.targets[rr.i]

\* a HasLabel that never finds the label
RemoteHasLabelNever(label) == FALSE

\* restClient.HasLabel: an exact match among the labels of the pull request
RemoteHasLabel(label) == \E k \in 1..Len(prLabels) : prLabels[k] = label

\* an evaluateTargets that returns the error of o.gh.HasLabel
HasLabelThenAbortOnError(rr, ok, hasLabel) ==
  LET doneLabel == DoneLabel(cfg.LabelPrefix, EvalTarget(rr).Branch)
  IN  IF ~ok THEN ReturnError(rr, "has label")
      ELSE IF hasLabel
      THEN EvalAppend(rr, [PendingStatus(EvalTarget(rr)) EXCEPT
             !.Status = TargetStatusSkippedExistingPR,
             !.Reason = [msg |-> "already cherry-picked (found label)", arg |-> doneLabel, err |-> ""]])
      ELSE [rr EXCEPT !.pc = "EnsureBranchExists"]

\* an evaluateTargets that goes on to the later checks when the done label is present
HasLabelThenNoShortCircuit(rr, ok, hasLabel) == [rr EXCEPT !.pc = "EnsureBranchExists"]

\* evaluateTargets: what follows o.gh.HasLabel
HasLabelThen(rr, ok, hasLabel) ==
  LET doneLabel == DoneLabel(cfg.LabelPrefix, EvalTarget(rr).Branch)
  IN  IF ok /\ hasLabel
      THEN EvalAppend(rr, [PendingStatus(EvalTarget(rr)) EXCEPT
             !.Status = TargetStatusSkippedExistingPR,
             !.Reason = [msg |-> "already cherry-picked (found label)", arg |-> doneLabel, err |-> ""]])
      ELSE [rr EXCEPT !.pc = "EnsureBranchExists"]

\* evaluateTargets: o.gh.HasLabel for the done label of the current target
HasLabel(r) ==
  /\ run[r].pc = "HasLabel"
  /\ LET doneLabel == DoneLabel(cfg.LabelPrefix, EvalTarget(run[r]).Branch)
     IN  \E ok \in Outcomes :
           /\ Charge(ok)
           /\ Record(r, "HasLabel", EvalTarget(run[r]).Branch, doneLabel, ok)
           /\ SetRun(r, HasLabelThen(run[r], ok, RemoteHasLabel(doneLabel)))
  /\ UNCHANGED <<inputs, prLabels, remotePRs, remoteHeads, removals>>

\* an evaluateTargets that treats ErrBranchNotFound as any other error
EnsureBranchExistsThenNoSentinel(rr, ok, found) ==
  IF ~ok \/ ~found THEN ReturnError(rr, "ensure branch")
  ELSE [rr EXCEPT !.pc = "ListCherryPickPRs"]

\* evaluateTargets: what follows o.gh.EnsureBranchExists; found FALSE is ErrBranchNotFound
EnsureBranchExistsThen(rr, ok, found) ==
  IF ~ok THEN ReturnError(rr, "ensure branch")
  ELSE IF ~found
  THEN EvalAppend(rr, [PendingStatus(EvalTarget(rr)) EXCEPT
         !.Status = TargetStatusSkippedNoBranch,
         !.Reason = [NoReason EXCEPT !.msg = "target branch not found in repository; ensure the release branch exists or remove the label"]])
  ELSE [rr EXCEPT !.pc = "ListCherryPickPRs"]

\* evaluateTargets: o.gh.EnsureBranchExists for the current target
EnsureBranchExists(r) ==
  /\ run[r].pc = "EnsureBranchExists"
  /\ LET branch == EvalTarget(run[r]).Branch
     IN  \E ok \in Outcomes :
           /\ Charge(ok)
           /\ Record(r, "EnsureBranchExists", branch, branch, ok)
           /\ SetRun(r, EnsureBranchExistsThen(run[r], ok, branch \in remoteBranches))
  /\ UNCHANGED <<inputs, prLabels, remotePRs, remoteHeads, removals>>

\* the CherryPickPR a gh.Client call returns for a pull request of the remote
PRRef(pr) == [Number |-> pr.Number, Head |-> pr.Head, Base |-> pr.Base]

\* a ListCherryPickPRs that looks for the target branch as the head
RemoteListByTargetHead(sourcePR, targetBranch) ==
  LET Matches(pr) == pr.Head = targetBranch /\ pr.Base = targetBranch
      found == SelectSeq(remotePRs, Matches)
  IN  [k \in 1..Len(found) |-> PRRef(found[k])]

\* restClient.ListCherryPickPRs: the pull requests with the head and base of the convention
RemoteListCherryPickPRs(sourcePR, targetBranch) ==
  LET branchName == BranchNameForCherryPick(targetBranch, sourcePR)
      Matches(pr) == pr.Head = branchName /\ pr.Base = targetBranch
      found == SelectSeq(remotePRs, Matches)
  IN  [k \in 1..Len(found) |-> PRRef(found[k])]

\* evaluateTargets: what follows o.gh.ListCherryPickPRs
ListCherryPickPRsThen(rr, ok, existing) ==
  IF ~ok THEN ReturnError(rr, "list cherry-pick prs")
  ELSE IF Len(existing) > 0
  THEN EvalAppend(rr, [PendingStatus(EvalTarget(rr)) EXCEPT
         !.Status = TargetStatusSkippedExistingPR,
         !.Reason = [NoReason EXCEPT !.msg = "cherry-pick PR already exists"],
         !.ExistingPR = existing[1]])
  ELSE [rr EXCEPT !.pc = "CommitExistsOnBranch"]

\* evaluateTargets: o.gh.ListCherryPickPRs for the current target
ListCherryPickPRs(r) ==
  /\ run[r].pc = "ListCherryPickPRs"
  /\ LET branch == EvalTarget(run[r]).Branch
     IN  \E ok \in Outcomes :
           /\ Charge(ok)
           /\ Record(r, "ListCherryPickPRs", branch, branch, ok)
           /\ SetRun(r, ListCherryPickPRsThen(run[r], ok, RemoteListCherryPickPRs(PRNumber, branch)))
  /\ UNCHANGED <<inputs, prLabels, remotePRs, remoteHeads, removals>>

\* evaluateTargets: what follows o.gh.CommitExistsOnBranch
CommitExistsOnBranchThen(rr, ok, exists) ==
  IF ~ok THEN ReturnError(rr, "check commit")
  ELSE IF exists
  THEN EvalAppend(rr, [PendingStatus(EvalTarget(rr)) EXCEPT
         !.Status = TargetStatusSkippedAlreadyPresent,
         !.Reason = [NoReason EXCEPT !.msg = "commit already present on target"]])
  ELSE EvalAppend(rr, PendingStatus(EvalTarget(rr)))

\* evaluateTargets: o.gh.CommitExistsOnBranch for the current target
CommitExistsOnBranch(r) ==
  /\ run[r].pc = "CommitExistsOnBranch"
  /\ LET branch == EvalTarget(run[r]).Branch
     IN  \E ok \in Outcomes :
           /\ Charge(ok)
           /\ Record(r, "CommitExistsOnBranch", branch, run[r].sourceCommit, ok)
           /\ SetRun(r, CommitExistsOnBranchThen(run[r], ok, <<branch, run[r].sourceCommit>> \in commitsOn))
  /\ UNCHANGED <<inputs, prLabels, remotePRs, remoteHeads, removals>>

(***************************************************************************)
(* executeTarget and its continuations.  rr.cur is the local variable      *)
(* target of executeTarget; the deferred Cleanup runs on every return      *)
(* that follows a successful Prepare.                                      *)
(***************************************************************************)
Failed(target, msg, arg, err) ==
  [target EXCEPT !.Status = TargetStatusFailed, !.Reason = [msg |-> msg, arg |-> arg, err |-> err]]

\* return target, with the deferred workspace.Cleanup pending
ReturnTarget(rr, target) == [rr EXCEPT !.cur = target, !.pc = "Cleanup"]

\* the target branch executeTarget works on
ExecBranch(rr) == rr.plan[rr.i].Target.Branch

\* executeTarget: what follows o.git.Prepare
PrepareThen(rr, ok) ==
  IF ~ok THEN ExecStore(rr, Failed(rr.plan[rr.i], "prepare workspace", <<>>, "transient"))
  ELSE [rr EXCEPT !.cur = rr.plan[rr.i],
                  !.branchName = BranchNameForCherryPick(ExecBranch(rr), PRNumber),
                  !.workspace = TRUE, !.pc = "CheckoutTarget"]

\* executeTarget: o.git.Prepare
Prepare(r) ==
  /\ run[r].pc = "Prepare"
  /\ \E ok \in Outcomes :
       /\ Charge(ok)
       /\ Record(r, "Prepare", ExecBranch(run[r]), <<>>, ok)
       /\ SetRun(r, PrepareThen(run[r], ok))
  /\ UNCHANGED <<inputs, prLabels, remotePRs, remoteHeads, removals>>

\* an executeTarget whose failed checkout returns without the deferred Cleanup
CheckoutTargetThenNoCleanup(rr, ok) ==
  IF ~ok THEN ExecStore(rr, Failed(rr.cur, "checkout target branch", ExecBranch(rr), "transient"))
  ELSE [rr EXCEPT !.pc = "CreateBranchFrom"]

\* executeTarget: what follows workspace.CheckoutBranch(target branch)
CheckoutTargetThen(rr, ok) ==
  IF ~ok THEN ReturnTarget(rr, Failed(rr.cur, "checkout target branch", ExecBranch(rr), "transient"))
  ELSE [rr EXCEPT !.pc = "CreateBranchFrom"]

\* executeTarget: workspace.CheckoutBranch(target branch)
CheckoutTarget(r) ==
  /\ run[r].pc = "CheckoutTarget"
  /\ \E ok \in Outcomes :
       /\ Charge(ok)
       /\ Record(r, "CheckoutBranch", ExecBranch(run[r]), ExecBranch(run[r]), ok)
       /\ SetRun(r, CheckoutTargetThen(run[r], ok))
  /\ UNCHANGED <<inputs, prLabels, remotePRs, remoteHeads, removals>>

\* executeTarget: what follows workspace.CreateBranchFrom
CreateBranchFromThen(rr, ok) ==
  IF ~ok THEN ReturnTarget(rr, Failed(rr.cur, "create branch", rr.branchName, "transient"))
  ELSE [rr EXCEPT !.pc = "CheckoutCherryPick"]

\* executeTarget: workspace.CreateBranchFrom(branchName, target branch)
CreateBranchFrom(r) ==
  /\ run[r].pc = "CreateBranchFrom"
  /\ \E ok \in Outcomes :
       /\ Charge(ok)
       /\ Record(r, "CreateBranchFrom", ExecBranch(run[r]), run[r].branchName, ok)
       /\ SetRun(r, CreateBranchFromThen(run[r], ok))
  /\ UNCHANGED <<inputs, prLabels, remotePRs, remoteHeads, removals>>

\* executeTarget: what follows workspace.CheckoutBranch(branchName)
CheckoutCherryPickThen(rr, ok) ==
  IF ~ok THEN ReturnTarget(rr, Failed(rr.cur, "checkout cherry-pick branch", rr.branchName, "transient"))
  ELSE [rr EXCEPT !.pc = "CherryPick"]

\* executeTarget: workspace.CheckoutBranch(branchName)
CheckoutCherryPick(r) ==
  /\ run[r].pc = "CheckoutCherryPick"
  /\ \E ok \in Outcomes :
       /\ Charge(ok)
       /\ Record(r, "CheckoutBranch", ExecBranch(run[r]), run[r].branchName, ok)
       /\ SetRun(r, CheckoutCherryPickThen(run[r], ok))
  /\ UNCHANGED <<inputs, prLabels, remotePRs, remoteHeads, removals>>

\* executeTarget: what follows workspace.CherryPick; err is its error, "" for none
CherryPickThen(rr, err) ==
  IF err # "" THEN [rr EXCEPT !.cherryErr = err, !.pc = "AbortCherryPick"]
  ELSE [rr EXCEPT !.pc = "PushBranch"]

\* executeTarget: workspace.CherryPick(sourceCommit); it conflicts on the
\* branches of conflictsOn and may fail transiently elsewhere
CherryPick(r) ==
  /\ run[r].pc = "CherryPick"
  /\ LET conflict == ExecBranch(run[r]) \in conflictsOn
     IN  \E ok \in (IF conflict THEN {FALSE} ELSE Outcomes) :
           /\ faults' = IF ok \/ conflict THEN faults ELSE faults + 1
           /\ Record(r, "CherryPick", ExecBranch(run[r]), run[r].sourceCommit, ok)
           /\ SetRun(r, CherryPickThen(run[r],
                          IF ok THEN "" ELSE IF conflict THEN "conflict" ELSE "transient"))
  /\ UNCHANGED <<inputs, prLabels, remotePRs, remoteHeads, removals>>

\* a handleCherryPickError that opens a placeholder whatever the strategy
handleCherryPickErrorAlwaysPlaceholder(rr) == [rr EXCEPT !.pc = "CommitAllowEmpty"]

\* handleCherryPickError
handleCherryPickError(rr) ==
  IF cfg.ConflictStrategy = conflictStrategyPlaceholderPR
  THEN [rr EXCEPT !.pc = "CommitAllowEmpty"]
  ELSE ReturnTarget(rr, Failed(rr.cur, "cherry-pick commit", rr.sourceCommit, rr.cherryErr))

\* executeTarget: workspace.AbortCherryPick, whose error is only logged
AbortCherryPick(r) ==
  /\ run[r].pc = "AbortCherryPick"
  /\ \E ok \in Outcomes :
       /\ Charge(ok)
       /\ Record(r, "AbortCherryPick", ExecBranch(run[r]), <<>>, ok)
       /\ SetRun(r, handleCherryPickError(run[r]))
  /\ UNCHANGED <<inputs, prLabels, remotePRs, remoteHeads, removals>>

\* the remote after workspace.PushBranch(branchName)
RemotePush(branchName, ok) ==
  remoteHeads' = IF ok THEN remoteHeads \cup {branchName} ELSE remoteHeads

\* a finalizeCherryPickSuccess that goes on to the pull request whatever PushBranch returned
PushBranchThenIgnoreError(rr, ok) == [rr EXCEPT !.pc = "CreatePullRequest"]

\* finalizeCherryPickSuccess: what follows workspace.PushBranch
PushBranchThen(rr, ok) ==
  IF ~ok THEN ReturnTarget(rr, Failed(rr.cur, "push cherry-pick branch", rr.branchName, "transient"))
  ELSE [rr EXCEPT !.pc = "CreatePullRequest"]

\* finalizeCherryPickSuccess: workspace.PushBranch(branchName)
PushBranch(r) ==
  /\ run[r].pc = "PushBranch"
  /\ \E ok \in Outcomes :
       /\ Charge(ok)
       /\ Record(r, "PushBranch", ExecBranch(run[r]), run[r].branchName, ok)
       /\ RemotePush(run[r].branchName, ok)
       /\ SetRun(r, PushBranchThen(run[r], ok))
  /\ UNCHANGED <<inputs, prLabels, remotePRs, removals>>

\* restClient.CreatePullRequest: how a call can end.  "created": all of it
\* succeeded; "create-failed": PullRequests.Create failed; "labels-failed" and
\* "assignees-failed": the pull request was opened and a later step failed;
\* "rejected": the remote refuses a second pull request for one head and base.
CreateOutcomes(input) ==
  {"created"}
  \cup (IF faults < MaxFaults THEN {"create-failed"} ELSE {})
  \cup (IF faults < MaxFaults /\ Len(input.Labels) > 0 THEN {"labels-failed"} ELSE {})
  \cup (IF faults < MaxFaults /\ Len(input.Assignees) > 0 THEN {"assignees-failed"} ELSE {})
  \cup (IF \E k \in 1..Len(remotePRs) : remotePRs[k].Head = input.Head /\ remotePRs[k].Base = input.Base
        THEN {"rejected"} ELSE {})

\* the pull request the remote holds after restClient.CreatePullRequest ended with outcome
OpenedPR(input, outcome, r) ==
  [Number |-> Len(remotePRs) + 1, Head |-> input.Head, Base |-> input.Base,
   Title |-> input.Title, Body |-> input.Body,
   Labels |-> IF outcome = "labels-failed" THEN <<>> ELSE input.Labels,
   Assignees |-> IF outcome = "created" THEN input.Assignees ELSE <<>>,
   by |-> r]

\* the remote after restClient.CreatePullRequest ended with outcome
RemoteCreate(input, outcome, r) ==
  /\ faults' = IF outcome \in {"created", "rejected"} THEN faults ELSE faults + 1
  /\ remotePRs' = IF outcome \in {"create-failed", "rejected"} THEN remotePRs
                  ELSE Append(remotePRs, OpenedPR(input, outcome, r))

\* a finalizeCherryPickSuccess that adds the done label whatever CreatePullRequest returned
CreatePullRequestThenAlwaysLabel(rr, outcome, createdPR) ==
  [rr EXCEPT !.pc = "AddLabel",
             !.cur = IF outcome # "created"
                     THEN Failed(rr.cur, "create pull request", <<>>, outcome)
                     ELSE [rr.cur EXCEPT
                             !.Status = "succeeded",
                             !.Reason = [NoReason EXCEPT !.msg = "cherry-pick pull request created"],
                             !.CreatedPR = createdPR]]

\* finalizeCherryPickSuccess: what follows o.gh.CreatePullRequest; createdPR is its result
CreatePullRequestThen(rr, outcome, createdPR) ==
  IF outcome # "created"
  THEN ReturnTarget(rr, Failed(rr.cur, "create pull request", <<>>, outcome))
  ELSE [rr EXCEPT !.pc = "AddLabel",
                  !.cur = [rr.cur EXCEPT
                     !.Status = TargetStatusSucceeded,
                     !.Reason = [NoReason EXCEPT !.msg = "cherry-pick pull request created"],
                     !.CreatedPR = createdPR]]

\* finalizeCherryPickSuccess: o.gh.CreatePullRequest
CreatePullRequest(r) ==
  /\ run[r].pc = "CreatePullRequest"
  /\ LET rr == run[r]
         input == buildCreatePROptions(rr.Labels, rr.cur.Target, rr.branchName)
     IN  \E outcome \in CreateOutcomes(input) :
           /\ RemoteCreate(input, outcome, r)
           /\ Record(r, "CreatePullRequest", ExecBranch(rr), input.Head, outcome = "created")
           /\ SetRun(r, CreatePullRequestThen(rr, outcome, PRRef(OpenedPR(input, outcome, r))))
  /\ UNCHANGED <<inputs, prLabels, remoteHeads, removals>>

\* restClient.AddLabel on the source pull request
RemoteAddLabel(label, ok) ==
  prLabels' = IF ok /\ ~RemoteHasLabel(label) THEN Append(prLabels, label) ELSE prLabels

\* finalizeCherryPickSuccess: o.gh.AddLabel(doneLabel), whose error is only logged
AddLabel(r) ==
  /\ run[r].pc = "AddLabel"
  /\ LET doneLabel == DoneLabel(cfg.LabelPrefix, ExecBranch(run[r]))
     IN  \E ok \in Outcomes :
           /\ Charge(ok)
           /\ Record(r, "AddLabel", ExecBranch(run[r]), doneLabel, ok)
           /\ RemoteAddLabel(doneLabel, ok)
           /\ SetRun(r, ReturnTarget(run[r], run[r].cur))
  /\ UNCHANGED <<inputs, remotePRs, remoteHeads, removals>>

\* handlePlaceholderConflict: what follows workspace.CommitAllowEmpty
CommitAllowEmptyThen(rr, ok) ==
  IF ~ok THEN ReturnTarget(rr, Failed(rr.cur, "placeholder commit failed after conflict", <<>>, rr.cherryErr))
  ELSE [rr EXCEPT !.pc = "PushPlaceholder"]

\* handlePlaceholderConflict: workspace.CommitAllowEmpty
CommitAllowEmpty(r) ==
  /\ run[r].pc = "CommitAllowEmpty"
  /\ \E ok \in Outcomes :
       /\ Charge(ok)
       /\ Record(r, "CommitAllowEmpty", ExecBranch(run[r]), <<>>, ok)
       /\ SetRun(r, CommitAllowEmptyThen(run[r], ok))
  /\ UNCHANGED <<inputs, prLabels, remotePRs, remoteHeads, removals>>

\* handlePlaceholderConflict: what follows workspace.PushBranch
PushPlaceholderThen(rr, ok) ==
  IF ~ok THEN ReturnTarget(rr, Failed(rr.cur, "push placeholder branch failed after conflict", rr.branchName, rr.cherryErr))
  ELSE [rr EXCEPT !.pc = "CreatePlaceholderPR"]

\* handlePlaceholderConflict: workspace.PushBranch(branchName)
PushPlaceholder(r) ==
  /\ run[r].pc = "PushPlaceholder"
  /\ \E ok \in Outcomes :
       /\ Charge(ok)
       /\ Record(r, "PushBranch", ExecBranch(run[r]), run[r].branchName, ok)
       /\ RemotePush(run[r].branchName, ok)
       /\ SetRun(r, PushPlaceholderThen(run[r], ok))
  /\ UNCHANGED <<inputs, prLabels, remotePRs, removals>>

\* the CreatePROptions of handlePlaceholderConflict
PlaceholderInput(rr) ==
  LET prInput == buildCreatePROptions(rr.Labels, rr.cur.Target, rr.branchName)
  IN  [prInput EXCEPT !.Body = decoratePlaceholderBody(prInput.Body, PRNumber, rr.cur.Target.Branch, rr.cherryErr)]

\* handlePlaceholderConflict: what follows o.gh.CreatePullRequest
CreatePlaceholderPRThen(rr, outcome, createdPR) ==
  IF outcome # "created"
  THEN ReturnTarget(rr, Failed(rr.cur, "create placeholder pull request failed", <<>>, rr.cherryErr))
  ELSE [rr EXCEPT !.pc = "AddLabelPlaceholder",
                  !.cur = [rr.cur EXCEPT
                     !.Status = TargetStatusPlaceholderPR,
                     !.Reason = [msg |-> "cherry-pick conflict: placeholder PR opened", arg |-> <<>>, err |-> rr.cherryErr],
                     !.CreatedPR = createdPR]]

\* handlePlaceholderConflict: o.gh.CreatePullRequest
CreatePlaceholderPR(r) ==
  /\ run[r].pc = "CreatePlaceholderPR"
  /\ LET rr == run[r]
         input == PlaceholderInput(rr)
     IN  \E outcome \in CreateOutcomes(input) :
           /\ RemoteCreate(input, outcome, r)
           /\ Record(r, "CreatePullRequest", ExecBranch(rr), input.Head, outcome = "created")
           /\ SetRun(r, CreatePlaceholderPRThen(rr, outcome, PRRef(OpenedPR(input, outcome, r))))
  /\ UNCHANGED <<inputs, prLabels, remoteHeads, removals>>

\* handlePlaceholderConflict: o.gh.AddLabel(doneLabel), whose error is only logged
AddLabelPlaceholder(r) ==
  /\ run[r].pc = "AddLabelPlaceholder"
  /\ LET doneLabel == DoneLabel(cfg.LabelPrefix, ExecBranch(run[r]))
     IN  \E ok \in Outcomes :
           /\ Charge(ok)
           /\ Record(r, "AddLabel", ExecBranch(run[r]), doneLabel, ok)
           /\ RemoteAddLabel(doneLabel, ok)
           /\ SetRun(r, ReturnTarget(run[r], run[r].cur))
  /\ UNCHANGED <<inputs, remotePRs, remoteHeads, removals>>

\* an executeTarget that fails the target when the deferred Cleanup fails
CleanupEscalates(r) ==
  /\ run[r].pc = "Cleanup"
  /\ \E ok \in Outcomes :
       /\ Charge(ok)
       /\ Record(r, "Cleanup", ExecBranch(run[r]), <<>>, ok)
       /\ SetRun(r, ExecStore(run[r], IF ok THEN run[r].cur
                                      ELSE Failed(run[r].cur, "cleanup workspace", <<>>, "transient")))
  /\ UNCHANGED <<inputs, prLabels, remotePRs, remoteHeads, removals>>

\* the deferred workspace.Cleanup of executeTarget, whose error is only logged;
\* executePendingTargets then stores the result and goes on
Cleanup(r) ==
  /\ run[r].pc = "Cleanup"
  /\ \E ok \in Outcomes :
       /\ Charge(ok)
       /\ Record(r, "Cleanup", ExecBranch(run[r]), <<>>, ok)
       /\ SetRun(r, ExecStore(run[r], run[r].cur))
  /\ UNCHANGED <<inputs, prLabels, remotePRs, remoteHeads, removals>>

\* a human removes a trigger label from the source pull request; only a fetch
\* of the pull request observes it, so it is taken when a run is about to fetch
RemoveLabel ==
  /\ removals < MaxRemovals
  /\ \E r \in Runs : run[r].pc \in {"GetPullRequest", "Refresh"}
  /\ \E k \in 1..Len(prLabels) :
       /\ prLabels[k] \in {LblR1, LblR2}
       /\ prLabels' = SubSeq(prLabels, 1, k - 1) \o SubSeq(prLabels, k + 1, Len(prLabels))
  /\ removals' = removals + 1
  /\ UNCHANGED <<inputs, remotePRs, remoteHeads, run, log, faults>>

Step(r) ==
  \/ StartRun(r)
  \/ GetPullRequest(r)
  \/ Refresh(r)
  \/ HasLabel(r)
  \/ EnsureBranchExists(r)
  \/ ListCherryPickPRs(r)
  \/ CommitExistsOnBranch(r)
  \/ Prepare(r)
  \/ CheckoutTarget(r)
  \/ CreateBranchFrom(r)
  \/ CheckoutCherryPick(r)
  \/ CherryPick(r)
  \/ AbortCherryPick(r)
  \/ PushBranch(r)
  \/ CreatePullRequest(r)
  \/ AddLabel(r)
  \/ CommitAllowEmpty(r)
  \/ PushPlaceholder(r)
  \/ CreatePlaceholderPR(r)
  \/ AddLabelPlaceholder(r)
  \/ Cleanup(r)

Next == (\E r \in Runs : Step(r)) \/ RemoveLabel

Spec == Init /\ [][Next]_vars

SpecOverlap == InitOverlap /\ [][Next]_vars

(***************************************************************************)
(* Properties of the orchestrator.                                         *)
(***************************************************************************)
Returned(r) == run[r].pc = "returned"

\* the run returned a Result with its targets and a nil error
Reported(r) == Returned(r) /\ run[r].ret.err = "" /\ ~run[r].ret.Skipped

\* the calls of run r, in order, that are made for target branch b
CallsFor(r, b) ==
  LET Mine(e) == e.target = b
  IN  SelectSeq(log[r], Mine)

\* the calls of operation op that run r made for target branch b
Calls(r, op, b) ==
  LET Mine(e) == e.op = op /\ e.target = b
  IN  SelectSeq(log[r], Mine)

OpsOf(calls) == [k \in 1..Len(calls) |-> calls[k].op]

\* the positions of the returned targets of run r
Results(r) == 1..Len(run[r].ret.Targets)

WorkspaceOps ==
  {"Prepare", "CheckoutBranch", "CreateBranchFrom", "CherryPick", "AbortCherryPick",
   "CommitAllowEmpty", "PushBranch", "Cleanup"}

DoneReason(b) ==
  [msg |-> "already cherry-picked (found label)", arg |-> DoneLabel(cfg.LabelPrefix, b), err |-> ""]

\* run r ended with b succeeded and the done label of b added
SucceededWithLabel(r, b) ==
  /\ Returned(r)
  /\ \E k \in Results(r) :
       /\ run[r].ret.Targets[k].Target.Branch = b
       /\ run[r].ret.Targets[k].Status = TargetStatusSucceeded
  /\ \E p \in 1..Len(log[r]) :
       log[r][p].op = "AddLabel" /\ log[r][p].target = b /\ log[r][p].ok

\* C1: a target that an earlier run ended succeeded with its done label added
\* is reported by every later run of the same pull request as
\* skipped_existing_pr, with no Prepare call for it; when the later run's
\* HasLabel call answered, the reason names the done label.
C1_DoneLabelIdempotent ==
  \A r1 \in Runs : \A r2 \in Runs : \A k \in Results(r2) :
    LET t == run[r2].ret.Targets[k]
        b == t.Target.Branch
    IN  (r1 < r2 /\ SucceededWithLabel(r1, b) /\ Returned(r2))
        => /\ t.Status = TargetStatusSkippedExistingPR
           /\ \A p \in 1..Len(log[r2]) :
                log[r2][p].target = b => log[r2][p].op \notin WorkspaceOps
           /\ (\E p \in 1..Len(log[r2]) :
                 log[r2][p].op = "HasLabel" /\ log[r2][p].target = b /\ log[r2][p].ok)
              => t.Reason = DoneReason(b)

\* the second run reports r1, which the first run ended succeeded and labelled,
\* as skipped because of its done label
C1_Witness ==
  /\ SucceededWithLabel(1, R1)
  /\ Returned(2)
  /\ \E k \in Results(2) :
       /\ run[2].ret.Targets[k].Target.Branch = R1
       /\ run[2].ret.Targets[k].Status = TargetStatusSkippedExistingPR
       /\ run[2].ret.Targets[k].Reason = DoneReason(R1)
  /\ Calls(2, "Prepare", R1) = <<>>

\* the successful CreatePullRequest calls of all runs for base branch b
Creations(b) ==
  UNION { { <<r, p>> : p \in { q \in 1..Len(log[r]) :
                                 /\ log[r][q].op = "CreatePullRequest"
                                 /\ log[r][q].target = b
                                 /\ log[r][q].ok } } : r \in Runs }

\* the pull requests of the remote with base branch b
OpenedFor(b) == { k \in 1..Len(remotePRs) : remotePRs[k].Base = b }

BasesSeen ==
  { remotePRs[k].Base : k \in 1..Len(remotePRs) }
  \cup UNION { { log[r][p].target : p \in 1..Len(log[r]) } : r \in Runs }

\* C2: over sequential runs on the same pull request, CreatePullRequest
\* succeeds at most once per target branch and the remote holds at most one
\* cherry-pick pull request per target branch, also when the done label could
\* not be added by the run that opened the pull request.
C2_NoDuplicateOnRerun ==
  \A b \in BasesSeen :
    /\ Cardinality(Creations(b)) <= 1
    /\ Cardinality(OpenedFor(b)) <= 1

\* the first run opened the pull request for r1 and failed to add the done
\* label; the second run found the pull request and skipped r1
C2_Witness ==
  /\ Returned(1) /\ Returned(2)
  /\ Calls(1, "CreatePullRequest", R1) # <<>>
  /\ \E p \in 1..Len(log[1]) :
       log[1][p].op = "AddLabel" /\ log[1][p].target = R1 /\ ~log[1][p].ok
  /\ \E k \in Results(2) :
       /\ run[2].ret.Targets[k].Target.Branch = R1
       /\ run[2].ret.Targets[k].Status = TargetStatusSkippedExistingPR
       /\ run[2].ret.Targets[k].ExistingPR # NoPR
  /\ Cardinality(OpenedFor(R1)) = 1

\* C3: with DryRun enabled no run calls Prepare or any other workspace
\* operation, CreatePullRequest or AddLabel, nothing is pushed or opened on the
\* remote, and a run that returns its targets returns every target that
\* evaluation left pending as dry_run and every other target as evaluated.
C3_DryRunNoMutation ==
  cfg.DryRun =>
    /\ \A r \in Runs : \A p \in 1..Len(log[r]) :
         log[r][p].op \notin (WorkspaceOps \cup {"CreatePullRequest", "AddLabel"})
    /\ remotePRs = <<>>
    /\ remoteHeads = {}
    /\ \A r \in Runs :
         Reported(r) =>
           /\ Len(run[r].ret.Targets) = Len(run[r].evaluated)
           /\ \A k \in Results(r) :
                IF run[r].evaluated[k].Status = TargetStatusPending
                THEN /\ run[r].ret.Targets[k].Status = TargetStatusDryRun
                     /\ run[r].ret.Targets[k].Target = run[r].evaluated[k].Target
                     /\ run[r].ret.Targets[k].CreatedPR = NoPR
                ELSE run[r].ret.Targets[k] = run[r].evaluated[k]

\* a dry run returned one target as dry_run and another as skipped
C3_Witness ==
  /\ cfg.DryRun
  /\ \E r \in Runs :
       /\ Reported(r)
       /\ \E k \in Results(r) : run[r].ret.Targets[k].Status = TargetStatusDryRun
       /\ \E k \in Results(r) : run[r].ret.Targets[k].Status = TargetStatusSkippedNoBranch

\* run r began evaluateTargets
Evaluating(r) == \E p \in 1..Len(log[r]) : log[r][p].op = "HasLabel"

\* a call of evaluateTargets whose error aborts the run failed in run r
EvaluationError(r) ==
  \E p \in 1..Len(log[r]) :
    /\ log[r][p].op \in {"EnsureBranchExists", "ListCherryPickPRs", "CommitExistsOnBranch"}
    /\ ~log[r][p].ok

\* a step of executeTarget whose error fails the target failed for b in run r
ExecutionFailure(r, b) ==
  \E p \in 1..Len(log[r]) :
    /\ log[r][p].target = b
    /\ ~log[r][p].ok
    /\ \/ log[r][p].op \in {"Prepare", "CheckoutBranch", "CreateBranchFrom", "CommitAllowEmpty",
                            "PushBranch", "CreatePullRequest"}
       \/ log[r][p].op = "CherryPick" /\ cfg.ConflictStrategy # conflictStrategyPlaceholderPR

ExecutedStatuses == {TargetStatusSucceeded, TargetStatusFailed, TargetStatusPlaceholderPR}

\* C4 as stated: once a run evaluates its targets, no failure of a call for one
\* target keeps it from returning a Result with one TargetResult per target.
C4_FailureNeverAbortsRun ==
  \A r \in Runs :
    (Returned(r) /\ Evaluating(r))
      => /\ run[r].ret.err = ""
         /\ Len(run[r].ret.Targets) = Len(run[r].targets)

\* C4 amended: a failure during one target's execution, a failed done-label
\* check or a missing branch never prevents the other targets from being
\* evaluated and executed, and the run returns one TargetResult per target
\* with failed recorded exactly on the targets whose execution failed; an
\* error of EnsureBranchExists other than branch-not-found, of
\* ListCherryPickPRs or of CommitExistsOnBranch aborts the whole run with an
\* error, no TargetResult and no target executed.
C4_ExecutionFailureIsolated ==
  \A r \in Runs :
    (Returned(r) /\ Evaluating(r))
      => IF EvaluationError(r)
         THEN /\ run[r].ret.err # ""
              /\ run[r].ret.Targets = <<>>
              /\ \A p \in 1..Len(log[r]) :
                   log[r][p].op \notin (WorkspaceOps \cup {"CreatePullRequest", "AddLabel"})
         ELSE /\ Reported(r)
              /\ Len(run[r].ret.Targets) = Len(run[r].targets)
              /\ \A k \in Results(r) :
                   LET t == run[r].ret.Targets[k]
                       b == t.Target.Branch
                   IN  /\ t.Target = run[r].targets[k]
                       /\ run[r].evaluated[k].Status # TargetStatusPending
                            => t = run[r].evaluated[k]
                       /\ (run[r].evaluated[k].Status = TargetStatusPending /\ ~cfg.DryRun)
                            => /\ Calls(r, "Prepare", b) # <<>>
                               /\ t.Status \in ExecutedStatuses
                       /\ t.Status = TargetStatusFailed <=> ExecutionFailure(r, b)

\* the first target failed in execution and the second was still executed and succeeded
C4_Witness ==
  \E r \in Runs :
    /\ Reported(r)
    /\ Len(run[r].ret.Targets) >= 2
    /\ run[r].ret.Targets[1].Status = TargetStatusFailed
    /\ run[r].ret.Targets[2].Status = TargetStatusSucceeded
    /\ ExecutionFailure(r, run[r].ret.Targets[1].Target.Branch)

CallsAfter(r, p, b) ==
  LET Mine(e) == e.target = b
  IN  SelectSeq(SubSeq(log[r], p + 1, Len(log[r])), Mine)

CherryPickError(b) == IF b \in conflictsOn THEN "conflict" ELSE "transient"

\* C6: with the strategy fail, after CherryPick returned an error for a
\* target the run calls AbortCherryPick and then only Cleanup for it, never
\* CommitAllowEmpty, PushBranch, CreatePullRequest or AddLabel, opens no pull
\* request for it, and returns it failed with the cherry-pick error in the reason.
C6_FailStrategy ==
  cfg.ConflictStrategy # conflictStrategyPlaceholderPR =>
    \A r \in Runs : \A p \in 1..Len(log[r]) :
      LET b == log[r][p].target
      IN  (log[r][p].op = "CherryPick" /\ ~log[r][p].ok)
          => /\ OpsOf(CallsAfter(r, p, b)) \in
                  {<<>>, <<"AbortCherryPick">>, <<"AbortCherryPick", "Cleanup">>}
             /\ \A q \in 1..Len(log[r]) :
                  log[r][q].target = b =>
                    log[r][q].op \notin {"CommitAllowEmpty", "PushBranch", "CreatePullRequest", "AddLabel"}
             /\ \A k \in 1..Len(remotePRs) : ~(remotePRs[k].by = r /\ remotePRs[k].Base = b)
             /\ Returned(r) =>
                  /\ OpsOf(CallsAfter(r, p, b)) = <<"AbortCherryPick", "Cleanup">>
                  /\ \E k \in Results(r) :
                       /\ run[r].ret.Targets[k].Target.Branch = b
                       /\ run[r].ret.Targets[k].Status = TargetStatusFailed
                       /\ run[r].ret.Targets[k].Reason =
                            [msg |-> "cherry-pick commit", arg |-> run[r].sourceCommit,
                             err |-> CherryPickError(b)]
                       /\ run[r].ret.Targets[k].CreatedPR = NoPR

\* with the strategy fail the cherry-pick onto r1 conflicted and r1 was returned failed
C6_Witness ==
  /\ cfg.ConflictStrategy = "fail"
  /\ \E r \in Runs :
       /\ Reported(r)
       /\ \E k \in Results(r) :
            /\ run[r].ret.Targets[k].Target.Branch = R1
            /\ run[r].ret.Targets[k].Status = TargetStatusFailed
            /\ run[r].ret.Targets[k].Reason.err = "conflict"
       /\ Calls(r, "AbortCherryPick", R1) # <<>>

\* the steps of a placeholder cherry-pick for one target, from evaluation on
PlaceholderOps ==
  <<"HasLabel", "EnsureBranchExists", "ListCherryPickPRs", "CommitExistsOnBranch",
    "Prepare", "CheckoutBranch", "CreateBranchFrom", "CheckoutBranch", "CherryPick",
    "AbortCherryPick", "CommitAllowEmpty", "PushBranch", "CreatePullRequest", "AddLabel",
    "Cleanup">>

\* CherryPick returned an error for b in run r and the steps that follow it succeeded
ConflictThenSuccess(r, b) ==
  /\ \E p \in 1..Len(log[r]) :
       log[r][p].op = "CherryPick" /\ log[r][p].target = b /\ ~log[r][p].ok
  /\ \A p \in 1..Len(log[r]) :
       (log[r][p].target = b /\ log[r][p].op \in {"CommitAllowEmpty", "PushBranch", "CreatePullRequest"})
         => log[r][p].ok

HasPart(body, part, number, branch) ==
  \E k \in 1..Len(body) :
    body[k].part = part /\ body[k].number = number /\ body[k].branch = branch

\* C7: with the strategy placeholder-pr, a target whose CherryPick returned an
\* error and whose later steps succeeded is returned placeholder_pr after
\* exactly one AbortCherryPick, CommitAllowEmpty, PushBranch of the cherry-pick
\* branch and CreatePullRequest, in that order, followed by one AddLabel of the
\* done label; the body of the pull request opened starts with the conflict
\* notice and holds the cherry-pick-of marker.
C7_PlaceholderStrategy ==
  cfg.ConflictStrategy = conflictStrategyPlaceholderPR =>
    \A r \in Runs : \A k \in Results(r) :
      LET t == run[r].ret.Targets[k]
          b == t.Target.Branch
          calls == CallsFor(r, b)
      IN  (Returned(r) /\ ConflictThenSuccess(r, b))
          => /\ t.Status = TargetStatusPlaceholderPR
             /\ t.Reason.err = CherryPickError(b)
             /\ OpsOf(calls) = PlaceholderOps
             /\ calls[12].arg = BranchNameForCherryPick(b, PRNumber)
             /\ calls[14].arg = DoneLabel(cfg.LabelPrefix, b)
             /\ calls[14].ok => RemoteHasLabel(DoneLabel(cfg.LabelPrefix, b))
             /\ t.CreatedPR # NoPR
             /\ t.CreatedPR.Number \in 1..Len(remotePRs)
             /\ LET pr == remotePRs[t.CreatedPR.Number]
                IN  /\ pr.Head = BranchNameForCherryPick(b, PRNumber)
                    /\ pr.Base = b
                    /\ pr.Body[1].part = "conflict-notice"
                    /\ HasPart(pr.Body, "conflict-notice", PRNumber, b)
                    /\ HasPart(pr.Body, "cherry-pick-of", PRNumber, b)

\* with the strategy placeholder-pr the conflict on r1 ended in a placeholder pull request
C7_Witness ==
  /\ cfg.ConflictStrategy = "placeholder-pr"
  /\ \E r \in Runs :
       /\ Reported(r)
       /\ ConflictThenSuccess(r, R1)
       /\ \E k \in Results(r) :
            /\ run[r].ret.Targets[k].Target.Branch = R1
            /\ run[r].ret.Targets[k].Status = TargetStatusPlaceholderPR
       /\ \E k \in 1..Len(remotePRs) :
            remotePRs[k].Base = R1 /\ remotePRs[k].Body[1].part = "conflict-notice"

\* the position of branch b among the targets of run r, 0 if it is none of them
TargetIndex(r, b) ==
  IF \E k \in 1..Len(run[r].targets) : run[r].targets[k].Branch = b
  THEN CHOOSE k \in 1..Len(run[r].targets) : run[r].targets[k].Branch = b
  ELSE 0

\* C8: a target for which EnsureBranchExists answered branch-not-found gets no
\* further call in that run, in particular no Prepare; the answer does not make
\* the run return an error, the evaluation goes on with the next target, and a
\* run that returns its targets reports it skipped_missing_branch and has
\* executed every target that evaluation left pending.
C8_MissingBranchSkipped ==
  \A r \in Runs : \A p \in 1..Len(log[r]) :
    LET b == log[r][p].target
        k == TargetIndex(r, b)
    IN  (log[r][p].op = "EnsureBranchExists" /\ log[r][p].ok /\ b \notin remoteBranches)
        => /\ CallsAfter(r, p, b) = <<>>
           /\ Calls(r, "Prepare", b) = <<>>
           /\ p = Len(log[r]) =>
                /\ ~(Returned(r) /\ run[r].ret.err # "")
                /\ k < Len(run[r].targets) =>
                     run[r].pc = "HasLabel" /\ run[r].i = k + 1
           /\ Reported(r) =>
                /\ Len(run[r].ret.Targets) = Len(run[r].targets)
                /\ run[r].ret.Targets[k].Target.Branch = b
                /\ run[r].ret.Targets[k].Status = TargetStatusSkippedNoBranch
                /\ ~cfg.DryRun =>
                     \A j \in Results(r) :
                       run[r].evaluated[j].Status = TargetStatusPending
                         => /\ Calls(r, "Prepare", run[r].targets[j].Branch) # <<>>
                            /\ run[r].ret.Targets[j].Status \in ExecutedStatuses

\* r1 is missing and skipped, and r2, evaluated after it, was executed and succeeded
C8_Witness ==
  /\ R1 \notin remoteBranches
  /\ \E r \in Runs :
       /\ Reported(r)
       /\ Len(run[r].ret.Targets) >= 2
       /\ run[r].ret.Targets[1].Target.Branch = R1
       /\ run[r].ret.Targets[1].Status = TargetStatusSkippedNoBranch
       /\ run[r].ret.Targets[2].Status = TargetStatusSucceeded
       /\ Calls(r, "Prepare", R1) = <<>>

EvalOps == {"HasLabel", "EnsureBranchExists", "ListCherryPickPRs", "CommitExistsOnBranch"}

\* the evaluateTargets calls run r made for target b, in order
EvalCalls(r, b) ==
  LET Mine(e) == e.target = b /\ e.op \in EvalOps
  IN  SelectSeq(log[r], Mine)

\* the results of evaluateTargets in run r, as far as they are decided
EvalPlan(r) == IF run[r].evaluated # <<>> THEN run[r].evaluated ELSE run[r].plan

\* nothing changed the remote since run r began evaluating
Fresh(r) ==
  /\ \A p \in 1..Len(log[r]) : log[r][p].op \notin WorkspaceOps
  /\ \A q \in Runs : q > r => run[q].pc = "idle"

\* what the fixed order decides for target b, given whether HasLabel answered
Expected(r, b, answered) ==
  LET existing == RemoteListCherryPickPRs(PRNumber, b)
      target == run[r].targets[TargetIndex(r, b)]
  IN  IF answered /\ RemoteHasLabel(DoneLabel(cfg.LabelPrefix, b))
      THEN [PendingStatus(target) EXCEPT !.Status = TargetStatusSkippedExistingPR,
                                         !.Reason = DoneReason(b)]
      ELSE IF b \notin remoteBranches
      THEN [PendingStatus(target) EXCEPT
              !.Status = TargetStatusSkippedNoBranch,
              !.Reason = [NoReason EXCEPT !.msg = "target branch not found in repository; ensure the release branch exists or remove the label"]]
      ELSE IF Len(existing) > 0
      THEN [PendingStatus(target) EXCEPT
              !.Status = TargetStatusSkippedExistingPR,
              !.Reason = [NoReason EXCEPT !.msg = "cherry-pick PR already exists"],
              !.ExistingPR = existing[1]]
      ELSE IF <<b, run[r].sourceCommit>> \in commitsOn
      THEN [PendingStatus(target) EXCEPT
              !.Status = TargetStatusSkippedAlreadyPresent,
              !.Reason = [NoReason EXCEPT !.msg = "commit already present on target"]]
      ELSE PendingStatus(target)

\* the checks the fixed order queries before it decides on status t
QueriedFor(t) ==
  IF t.Status = TargetStatusSkippedExistingPR /\ t.ExistingPR = NoPR THEN <<"HasLabel">>
  ELSE IF t.Status = TargetStatusSkippedNoBranch THEN <<"HasLabel", "EnsureBranchExists">>
  ELSE IF t.Status = TargetStatusSkippedExistingPR
       THEN <<"HasLabel", "EnsureBranchExists", "ListCherryPickPRs">>
  ELSE <<"HasLabel", "EnsureBranchExists", "ListCherryPickPRs", "CommitExistsOnBranch">>

\* C9: evaluateTargets decides every target by the first condition that
\* applies in the order done label, missing branch, existing cherry-pick pull
\* request, commit present, else pending; it queries the checks in that order
\* and none after the one that decided.
C9_EvaluationOrder ==
  \A r \in Runs : \A k \in 1..Len(EvalPlan(r)) :
    LET t == EvalPlan(r)[k]
        b == t.Target.Branch
        calls == EvalCalls(r, b)
    IN  /\ OpsOf(calls) = QueriedFor(t)
        /\ \A p \in 2..Len(calls) : calls[p].ok
        /\ Fresh(r) => t = Expected(r, b, calls[1].ok)

\* r1 carries its done label and its branch is missing: the done label decides
C9_Witness ==
  /\ R1 \notin remoteBranches
  /\ \E r \in Runs :
       /\ Fresh(r)
       /\ Len(EvalPlan(r)) >= 1
       /\ EvalPlan(r)[1].Target.Branch = R1
       /\ EvalPlan(r)[1].Status = TargetStatusSkippedExistingPR
       /\ EvalPlan(r)[1].Reason = DoneReason(R1)
       /\ OpsOf(EvalCalls(r, R1)) = <<"HasLabel">>

\* C10: in a run AddLabel is called at most once per target, always with the
\* done label of the target and directly after a CreatePullRequest call for
\* that target that succeeded; when the run has returned, AddLabel was called
\* exactly once for the targets returned succeeded or placeholder_pr and not
\* at all for any other target.
C10_DoneLabelOnSuccess ==
  \A r \in Runs :
    /\ \A p \in 1..Len(log[r]) :
         log[r][p].op = "AddLabel"
           => /\ p > 1
              /\ log[r][p - 1].op = "CreatePullRequest"
              /\ log[r][p - 1].ok
              /\ log[r][p - 1].target = log[r][p].target
              /\ log[r][p].arg = DoneLabel(cfg.LabelPrefix, log[r][p].target)
    /\ \A b \in BasesSeen :
         /\ Len(Calls(r, "AddLabel", b)) <= 1
         /\ Returned(r) =>
              (Len(Calls(r, "AddLabel", b)) = 1
                 <=> \E k \in Results(r) :
                       /\ run[r].ret.Targets[k].Target.Branch = b
                       /\ run[r].ret.Targets[k].Status \in {TargetStatusSucceeded, TargetStatusPlaceholderPR})

\* r2 succeeded and got its done label, r1 failed and got none
C10_Witness ==
  \E r \in Runs :
    /\ Reported(r)
    /\ \E k \in Results(r) :
         /\ run[r].ret.Targets[k].Target.Branch = R2
         /\ run[r].ret.Targets[k].Status = TargetStatusSucceeded
    /\ \E k \in Results(r) :
         /\ run[r].ret.Targets[k].Target.Branch = R1
         /\ run[r].ret.Targets[k].Status = TargetStatusFailed
    /\ Len(Calls(r, "AddLabel", R2)) = 1
    /\ Calls(r, "AddLabel", R1) = <<>>
    /\ RemoteHasLabel(DoneLabel(cfg.LabelPrefix, R2))

\* the positions in the log of run r of the calls of op for target b
Positions(r, op, b) ==
  { p \in 1..Len(log[r]) : log[r][p].op = op /\ log[r][p].target = b }

\* the workspaces run r prepared, by target, and those it cleaned up
PreparedBy(r) ==
  { log[r][p].target : p \in { q \in 1..Len(log[r]) : log[r][q].op = "Prepare" /\ log[r][q].ok } }

CleanedBy(r) ==
  { log[r][p].target : p \in { q \in 1..Len(log[r]) : log[r][q].op = "Cleanup" } }

\* C11: a workspace that Prepare returned is cleaned up at most once, after
\* every other call made for its target; Cleanup is called only on a prepared
\* workspace; the one workspace not yet cleaned up is that of the target in
\* execution, and when the run returns every prepared workspace was cleaned
\* up exactly once.
C11_WorkspaceReleased ==
  \A r \in Runs :
    /\ CleanedBy(r) \subseteq PreparedBy(r)
    /\ \A b \in PreparedBy(r) :
         /\ Cardinality(Positions(r, "Prepare", b)) = 1
         /\ Cardinality(Positions(r, "Cleanup", b)) <= 1
         /\ \A q \in Positions(r, "Cleanup", b) :
              /\ CallsAfter(r, q, b) = <<>>
              /\ \A p \in Positions(r, "Prepare", b) : p < q
         /\ b \notin CleanedBy(r) =>
              /\ run[r].workspace
              /\ run[r].pc \notin {"idle", "returned", "Prepare"}
              /\ ExecBranch(run[r]) = b
    /\ run[r].workspace => PreparedBy(r) \ CleanedBy(r) # {}
    /\ Returned(r) => (~run[r].workspace /\ PreparedBy(r) = CleanedBy(r))

\* the workspace of r1 was cleaned up after CreatePullRequest failed, and the run returned
C11_Witness ==
  \E r \in Runs :
    /\ Returned(r)
    /\ \E p \in Positions(r, "CreatePullRequest", R1) : ~log[r][p].ok
    /\ Cardinality(Positions(r, "Cleanup", R1)) = 1
    /\ \A q \in Positions(r, "Cleanup", R1) : \A p \in Positions(r, "CreatePullRequest", R1) : p < q

\* the label prefix is empty or whitespace only, or a target resolved from
\* the labels seen and the manual overrides has an invalid branch name
InvalidConfiguration(labels) ==
  \/ TrimSpace(cfg.LabelPrefix) = <<>>
  \/ ValidateTargets(Resolve(labels).targets) # ""

\* C12: for a merged pull request not from a fork, with an empty or
\* whitespace-only label prefix or an invalid branch name among the resolved
\* targets, no run makes any call other than GetPullRequest, nothing is pushed,
\* opened or labelled, and every run that returns, returns an error with no
\* targets.
C12_InvalidConfigurationAborts ==
  (prMeta.IsMerged /\ ~prMeta.IsFromFork /\ InvalidConfiguration(prLabels)) =>
    /\ \A r \in Runs :
         /\ \A p \in 1..Len(log[r]) : log[r][p].op = "GetPullRequest"
         /\ Len(log[r]) <= 2
         /\ Returned(r) =>
              /\ run[r].ret.err # ""
              /\ ~run[r].ret.Skipped
              /\ run[r].ret.Targets = <<>>
    /\ remotePRs = <<>>
    /\ remoteHeads = {}

\* a run with the valid target r1 and the invalid target r..2 returned the
\* validation error after its two fetches
C12_Witness ==
  \E r \in Runs :
    /\ Returned(r)
    /\ run[r].ret.err = "validate targets"
    /\ Len(run[r].targets) = 2
    /\ run[r].targets[1].Branch = R1
    /\ validateBranchName(run[r].targets[2].Branch) # ""
    /\ Len(log[r]) = 2

ForkReason ==
  "pull request originates from a fork; create a branch in the base repository before labeling"

\* C13: for a pull request that is not merged, or merged but from a fork, a
\* run makes one GetPullRequest call and no other call, changes nothing on
\* the remote, and, when that call answered, returns Skipped with no targets
\* and no error; the reason is 'not merged' whenever the pull request is not
\* merged, fork or not, and the fork message otherwise.
C13_WholeRunSkip ==
  (~prMeta.IsMerged \/ prMeta.IsFromFork) =>
    /\ remotePRs = <<>>
    /\ remoteHeads = {}
    /\ \A r \in Runs :
         /\ Len(log[r]) <= 1
         /\ \A p \in 1..Len(log[r]) : log[r][p].op = "GetPullRequest"
         /\ Len(log[r]) = 1 => Returned(r)
         /\ (Returned(r) /\ log[r][1].ok) =>
              run[r].ret = [err |-> "", Skipped |-> TRUE, Targets |-> <<>>,
                            SkippedReason |-> IF ~prMeta.IsMerged THEN "not merged" ELSE ForkReason]

\* an unmerged pull request from a fork was skipped as not merged after one call
C13_Witness ==
  \E r \in Runs :
    /\ Returned(r)
    /\ run[r].ret.Skipped
    /\ prMeta.IsFromFork /\ ~prMeta.IsMerged
    /\ run[r].ret.SkippedReason = "not merged"
    /\ Len(log[r]) = 1

BranchesOf(targets) == { targets[k].Branch : k \in 1..Len(targets) }

\* the branches for which run r made a call
Processed(r) == { log[r][p].target : p \in 1..Len(log[r]) } \ {<<>>}

\* the second GetPullRequest call of run r answered
Refreshed(r) == Len(log[r]) >= 2 /\ log[r][2].ok

\* C14: a run calls GetPullRequest as its first and second call and never
\* again; a run whose first fetch resolved at least one target has called it
\* exactly twice when it returns; once the second call answered, the targets
\* of the run are those resolved from the refreshed labels and the manual
\* overrides, calls are made for these targets only, so for no target whose
\* label was removed between the fetches, and an empty refreshed target set
\* makes the run return Skipped with reason 'no targets' without a further call.
C14_LabelRefresh ==
  \A r \in Runs :
    /\ \A p \in 1..Len(log[r]) : log[r][p].op = "GetPullRequest" <=> p <= 2
    /\ (Returned(r) /\ Len(run[r].firstTargets) > 0) => Len(log[r]) >= 2
    /\ ~Refreshed(r) => Len(log[r]) <= 2
    /\ Refreshed(r) =>
         LET res == Resolve(run[r].Labels)
         IN  /\ res.err = "" => run[r].targets = res.targets
             /\ Processed(r) \subseteq BranchesOf(run[r].targets)
             /\ Processed(r) \cap (BranchesOf(run[r].firstTargets) \ BranchesOf(run[r].targets)) = {}
             /\ Reported(r) =>
                  /\ Len(run[r].ret.Targets) = Len(run[r].targets)
                  /\ \A k \in Results(r) : run[r].ret.Targets[k].Target = run[r].targets[k]
             /\ (res.err = "" /\ res.targets = <<>>) =>
                  /\ Len(log[r]) = 2
                  /\ run[r].ret = [err |-> "", Skipped |-> TRUE, SkippedReason |-> "no targets",
                                   Targets |-> <<>>]

\* the label of r1 was removed between the fetches: the run executed r2 and made no call for r1
C14_Witness ==
  \E r \in Runs :
    /\ Reported(r)
    /\ R1 \in BranchesOf(run[r].firstTargets)
    /\ BranchesOf(run[r].targets) = {R2}
    /\ Calls(r, "Prepare", R2) # <<>>
    /\ CallsFor(r, R1) = <<>>

\* the branches returned failed by run r, in order
FailedBranches(r) ==
  LET IsFailed(t) == t.Status = TargetStatusFailed
      failedTargets == SelectSeq(run[r].ret.Targets, IsFailed)
  IN  [k \in 1..Len(failedTargets) |-> failedTargets[k].Target.Branch]

\* C15: when ProcessPullRequest returned without error, Runner.Run returns an
\* error exactly if some target is failed, and the error lists the failed
\* branches; a whole-run skip returns nil; ProcessPullRequest returns an error
\* only before any target is executed, so never because an execution failed.
C15_RunFailsIffTargetFailed ==
  \A r \in Runs :
    Returned(r) =>
      /\ run[r].ret.err = "" =>
           /\ run[r].exit.err # "" <=> FailedBranches(r) # <<>>
           /\ run[r].exit.failed = FailedBranches(r)
      /\ run[r].ret.Skipped => run[r].exit = NoExit
      /\ run[r].ret.err # "" =>
           /\ run[r].exit.err = "process pull request"
           /\ \A p \in 1..Len(log[r]) :
                log[r][p].op \notin (WorkspaceOps \cup {"CreatePullRequest", "AddLabel"})
      /\ (\E b \in Processed(r) : ExecutionFailure(r, b)) => run[r].ret.err = ""

\* a run with r1 failed and r2 succeeded returned its targets and made Runner.Run fail
C15_Witness ==
  \E r \in Runs :
    /\ Reported(r)
    /\ run[r].exit.err # ""
    /\ run[r].exit.failed = <<R1>>
    /\ \E k \in Results(r) : run[r].ret.Targets[k].Status = TargetStatusSucceeded

\* the branches configured as target_branches, as applyManualTargets reads them
ConfiguredBranches == BranchesOf(ManualLoop(cfg.TargetBranches))

\* C16: when target_branches is configured the targets of a run are exactly
\* the configured branches, and no call is made for a branch that only a
\* cherry-pick label of the pull request names. The code merges instead.
C16_OverridesReplaceLabels ==
  \A r \in Runs :
    (cfg.TargetBranches # <<>> /\ Refreshed(r) /\ run[r].pc \notin {"idle", "GetPullRequest", "Refresh"}) =>
      /\ BranchesOf(run[r].targets) = ConfiguredBranches
      /\ Processed(r) \subseteq ConfiguredBranches

\* what each label of the labels run r works on names: [ok, branch]
Named(r) ==
  [p \in 1..Len(run[r].Labels) |-> parseBranch(run[r].Labels[p], TrimSpace(cfg.LabelPrefix))]

\* run r resolved its targets from the refreshed labels
Resolved(r) ==
  /\ Refreshed(r)
  /\ run[r].pc \notin {"idle", "GetPullRequest", "Refresh"}
  /\ TrimSpace(cfg.LabelPrefix) # <<>>

EvaluatedStatuses ==
  {TargetStatusPending, TargetStatusSkippedNoBranch, TargetStatusSkippedExistingPR,
   TargetStatusSkippedAlreadyPresent}

\* the statuses the dry-run loop or executeTarget gives a pending TargetResult
FinalStatuses ==
  IF cfg.DryRun THEN {TargetStatusDryRun}
  ELSE {TargetStatusSucceeded, TargetStatusFailed, TargetStatusPlaceholderPR}

\* one step of run r, seen from its TargetResults: the plan and the local
\* variable target of executeTarget
StatusStep(r) ==
  LET P == run[r].plan
      Q == run'[r].plan
      c == run[r].cur
      d == run'[r].cur
  IN  /\ Len(P) <= Len(Q) /\ Len(Q) <= Len(P) + 1
      /\ Len(Q) = Len(P) + 1 =>
           \* the step that appends the last result also runs the dry-run loop
           LET e == IF Len(run'[r].evaluated) = Len(Q) THEN run'[r].evaluated[Len(Q)] ELSE Q[Len(Q)]
           IN  /\ e.Status \in EvaluatedStatuses
               /\ Q[Len(Q)] # e =>
                    /\ e.Status = TargetStatusPending
                    /\ Q[Len(Q)].Target = e.Target
                    /\ Q[Len(Q)].Status = TargetStatusDryRun
                    /\ cfg.DryRun
      /\ \A k \in 1..Len(P) :
           P[k] # Q[k] =>
             /\ P[k].Status = TargetStatusPending
             /\ Q[k].Target = P[k].Target
             /\ Q[k].Status \in FinalStatuses
      /\ c # d =>
           \/ c = NoTarget /\ d = P[run'[r].i] /\ d.Status = TargetStatusPending
           \/ /\ c.Status = TargetStatusPending
              /\ d.Target = c.Target
              /\ d.Status \in FinalStatuses
           \/ /\ c.Status \in FinalStatuses
              /\ d = NoTarget
              /\ Q[run[r].i] = c
      /\ Returned(r)' /\ run'[r].ret.err = "" /\ ~run'[r].ret.Skipped => run'[r].ret.Targets = Q

\* C18: the status of a TargetResult is set once by evaluation, to pending or
\* to a skipped status; it changes at most once more, only from pending, and
\* only to dry_run (dry run) or to succeeded, failed or placeholder_pr
\* (execution); a TargetResult whose status is not pending never changes
\* again, and the returned targets are the plan as it then stands.
C18_StatusOnlyForwards == [][\A r \in Runs : StatusStep(r)]_vars

\* a returned run in which evaluation left r1 skipped and r2 pending, and
\* execution moved r2 on while r1 kept the status and reason of evaluation
C18_Witness ==
  \E r \in Runs :
    /\ Reported(r)
    /\ Len(run[r].evaluated) = 2
    /\ run[r].evaluated[1].Status = TargetStatusSkippedNoBranch
    /\ run[r].ret.Targets[1] = run[r].evaluated[1]
    /\ run[r].evaluated[2].Status = TargetStatusPending
    /\ run[r].ret.Targets[2].Status \in {TargetStatusSucceeded, TargetStatusDryRun}

\* the positions in the log of run r of its Prepare calls, whatever they answered
Prepares(r) == { p \in 1..Len(log[r]) : log[r][p].op = "Prepare" }

\* the branches evaluateTargets of run r left pending
PendingBranches(r) ==
  { run[r].evaluated[k].Target.Branch :
      k \in { j \in 1..Len(run[r].evaluated) : run[r].evaluated[j].Status = TargetStatusPending } }

\* the workspace of the successful Prepare at position p of run r was cleaned
\* up before position q
ReleasedBetween(r, p, q) ==
  \E c \in (p + 1)..(q - 1) :
    log[r][c].op = "Cleanup" /\ log[r][c].target = log[r][p].target

\* C19: a dry run never calls Prepare; otherwise Prepare is called only for
\* targets evaluation left pending, at most once each and exactly once each
\* when the run returns its targets, in the order of the targets; at most one
\* prepared workspace is not yet cleaned up, each is cleaned up before the
\* next Prepare, and every workspace call between a Prepare and its Cleanup
\* is for the target the workspace was prepared for.
C19_OneWorkspaceAtATime ==
  \A r \in Runs :
    /\ cfg.DryRun => Prepares(r) = {}
    /\ \A p \in Prepares(r) : log[r][p].target \in PendingBranches(r)
    /\ \A p, q \in Prepares(r) :
         p < q =>
           /\ TargetIndex(r, log[r][p].target) < TargetIndex(r, log[r][q].target)
           /\ log[r][p].ok => ReleasedBetween(r, p, q)
    /\ (Reported(r) /\ ~cfg.DryRun) =>
         \A b \in PendingBranches(r) : Cardinality(Positions(r, "Prepare", b)) = 1
    /\ Cardinality(PreparedBy(r) \ CleanedBy(r)) <= 1
    /\ \A p \in 1..Len(log[r]) :
         (log[r][p].op \in WorkspaceOps /\ log[r][p].op # "Prepare") =>
           \E q \in Prepares(r) :
             /\ q < p
             /\ log[r][q].ok
             /\ log[r][q].target = log[r][p].target
             /\ ~ReleasedBetween(r, q, p)
             /\ \A h \in Prepares(r) : h <= q \/ h > p

\* a returned run that prepared a workspace for r1, cleaned it up, and then
\* prepared one for r2
C19_Witness ==
  \E r \in Runs :
    /\ Reported(r)
    /\ PendingBranches(r) = {R1, R2}
    /\ \E p \in Positions(r, "Prepare", R1) : \E c \in Positions(r, "Cleanup", R1) :
         \E q \in Positions(r, "Prepare", R2) :
           /\ log[r][p].ok /\ log[r][q].ok
           /\ p < c /\ c < q

(***************************************************************************)
(* The target resolver alone: ProcessPullRequest from labels.CollectTargets *)
(* to applyManualTargets, over label and override texts built from the     *)
(* parts NormalizeBranch looks for.                                        *)
(***************************************************************************)
MaxPieces == 3

\* a pull request with one label under the prefix, and at most one override,
\* over the texts made of at most MaxPieces of the parts NormalizeBranch looks for
InitResolve ==
  LET RECURSIVE TextsUpTo(_)
      TextsUpTo(n) ==
        IF n = 0 THEN { <<>> }
        ELSE LET shorter == TextsUpTo(n - 1)
                 Pieces == { <<"/">>, <<" ">>, RefsHeads, R1 }
             IN  shorter \cup { p \o t : p \in Pieces, t \in shorter }
  IN
  /\ \E t \in TextsUpTo(MaxPieces) : prLabels = <<Pfx \o t>>
  /\ \E tb \in { <<>> } \cup { <<t>> : t \in TextsUpTo(MaxPieces) } :
       cfg = [LabelPrefix |-> Pfx, ConflictStrategy |-> "fail", DryRun |-> FALSE, TargetBranches |-> tb]
  /\ overlap = FALSE
  /\ prMeta = [IsMerged |-> TRUE, IsFromFork |-> FALSE, MergeSHA |-> SHA1, HeadSHA |-> SHA2, Assignees |-> <<>>]
  /\ remoteBranches = {R1, R2}
  /\ commitsOn = {}
  /\ conflictsOn = {}
  /\ remotePRs = <<>>
  /\ remoteHeads = {}
  /\ run = [r \in Runs |-> IdleRun]
  /\ log = [r \in Runs |-> <<>>]
  /\ faults = 0
  /\ removals = 0
  /\ namer = NoCall
  /\ git = NoGit

\* targets, err := labels.CollectTargets(pr.Labels, o.cfg.LabelPrefix)
CollectStep(r) ==
  /\ run[r].pc = "idle"
  /\ \A q \in Runs : q < r => run[q].pc = "resolved"
  /\ LET ct == CollectTargets(prLabels, cfg.LabelPrefix)
     IN  SetRun(r, IF ct.err # "" THEN ReturnError(run[r], "collect targets")
                   ELSE [run[r] EXCEPT !.Labels = prLabels, !.targets = ct.targets, !.pc = "collected"])
  /\ UNCHANGED <<inputs, prLabels, remotePRs, remoteHeads, log, faults, removals>>

\* targets = o.applyManualTargets(targets)
ApplyManualStep(r) ==
  /\ run[r].pc = "collected"
  /\ SetRun(r, [run[r] EXCEPT !.targets = applyManualTargets(run[r].targets, cfg.TargetBranches),
                              !.pc = "resolved"])
  /\ UNCHANGED <<inputs, prLabels, remotePRs, remoteHeads, log, faults, removals>>

NextResolve == \E r \in Runs : CollectStep(r) \/ ApplyManualStep(r)

SpecResolve == InitResolve /\ [][NextResolve]_vars

\* branch b has no slash and no whitespace at either end and does not begin
\* with refs/heads/
Normalized(b) ==
  /\ b # <<>>
  /\ Head(b) # "/" /\ b[Len(b)] # "/"
  /\ ~IsSpace(Head(b)) /\ ~IsSpace(b[Len(b)])
  /\ ~HasPrefix(ToLower(b), RefsHeads)

\* C20: every target the resolver produced, from a label or from an override,
\* has a normalized branch. NormalizeBranch strips one refs/heads/ prefix and
\* trims a fixed number of times, so nested inputs leave the target not
\* normalized.
C20_ResolvedBranchesNormalized ==
  \A r \in Runs : \A k \in 1..Len(run[r].targets) : Normalized(run[r].targets[k].Branch)

(***************************************************************************)
(* labels.CollectTargets over lists of labels that differ in the casing of *)
(* the prefix, in stray slashes, whitespace and a refs/heads/ prefix.      *)
(***************************************************************************)
MaxLabels == 3

\* lists of at most MaxLabels labels drawn from the label texts of
\* labels_test.go (with r1 and r2 for the release branches), under the prefix
\* as configured, with surrounding whitespace, blank or empty
InitCollect ==
  LET CollectTexts == { LblR1,
                        <<"C", "p", "/">> \o R1,
                        Pfx \o <<" ">> \o RefsHeads \o R1 \o <<"/", "/">>,
                        LblR1 \o <<" ">>,
                        Pfx,
                        LblBug,
                        LblR2 }
      CollectPrefixes == { Pfx, <<" ">> \o Pfx \o <<" ">>, BlankPrefix, <<>> }
  IN  /\ prLabels \in UNION { [1..n -> CollectTexts] : n \in 1..MaxLabels }
      /\ \E p \in CollectPrefixes :
           cfg = [LabelPrefix |-> p, ConflictStrategy |-> "fail", DryRun |-> FALSE, TargetBranches |-> <<>>]
      /\ overlap = FALSE
      /\ prMeta = [IsMerged |-> TRUE, IsFromFork |-> FALSE, MergeSHA |-> SHA1, HeadSHA |-> SHA2, Assignees |-> <<>>]
      /\ remoteBranches = {R1, R2}
      /\ commitsOn = {}
      /\ conflictsOn = {}
      /\ remotePRs = <<>>
      /\ remoteHeads = {}
      /\ run = [r \in Runs |-> IdleRun]
      /\ log = [r \in Runs |-> <<>>]
      /\ faults = 0
      /\ removals = 0
      /\ namer = NoCall
      /\ git = NoGit

SpecCollect == InitCollect /\ [][NextResolve]_vars

MaxBranchLen == 2

\* ProcessPullRequest with its targets resolved, about to validate them: one
\* target, or one target before or after an accepted or a rejected one, the
\* branch names being those of at most MaxBranchLen characters (each character
\* validateBranchName tests for, and some that pass) and the names of
\* labels_test.go with several slashes
InitValidate ==
  LET BranchChars == {" ", "\t", "\n", "\r", "~", "^", ":", "?", "*", "[", "]", "@", "{", "\\",
                      ".", "/", "r", "-", "}"}
      BranchNames == UNION { [1..n -> BranchChars] : n \in 0..MaxBranchLen }
                       \cup { R1, <<"r", "/", "v", "2", ".", "9", "/", "s">>, <<"f", "/", "f", "/", "b">> }
      T(b) == [LabelName |-> Pfx \o b, Branch |-> b]
      ValidateLists == { <<T(b)>> : b \in BranchNames }
                         \cup { <<T(b), T(c)>> : b \in BranchNames, c \in {R1, BadBranch} }
                         \cup { <<T(c), T(b)>> : b \in BranchNames, c \in {R1, BadBranch} }
  IN  /\ \E ts \in ValidateLists :
           run = [r \in Runs |-> [IdleRun EXCEPT !.pc = "resolved", !.firstTargets = ts, !.targets = ts]]
      /\ cfg = [LabelPrefix |-> Pfx, ConflictStrategy |-> "fail", DryRun |-> FALSE, TargetBranches |-> <<>>]
      /\ prLabels = <<>>
      /\ overlap = FALSE
      /\ prMeta = [IsMerged |-> TRUE, IsFromFork |-> FALSE, MergeSHA |-> SHA1, HeadSHA |-> SHA2, Assignees |-> <<>>]
      /\ remoteBranches = {R1, R2}
      /\ commitsOn = {}
      /\ conflictsOn = {}
      /\ remotePRs = <<>>
      /\ remoteHeads = {}
      /\ log = [r \in Runs |-> <<>>]
      /\ faults = 0
      /\ removals = 0
      /\ namer = NoCall
      /\ git = NoGit

\* if err := labels.ValidateTargets(targets); err != nil { return ... }
ValidateStep(r) ==
  /\ run[r].pc = "resolved"
  /\ SetRun(r, IF ValidateTargets(run[r].targets) # ""
               THEN ReturnError(run[r], "validate targets")
               ELSE [run[r] EXCEPT !.pc = "validated"])
  /\ UNCHANGED <<inputs, prLabels, remotePRs, remoteHeads, log, faults, removals>>

NextValidate == \E r \in Runs : ValidateStep(r)

SpecValidate == InitValidate /\ [][NextValidate]_vars

\* branch b is empty, holds a space, tab, newline or carriage return, holds
\* two dots in a row, or holds one of ~ ^ : ? * [ ] @ { \
Rejected(b) ==
  \/ b = <<>>
  \/ \E i \in 1..Len(b) : b[i] \in {" ", "\t", "\n", "\r"}
  \/ \E i \in 1..(Len(b) - 1) : b[i] = "." /\ b[i + 1] = "."
  \/ \E i \in 1..Len(b) : b[i] \in {"~", "^", ":", "?", "*", "[", "]", "@", "{", "\\"}

\* C22: ValidateTargets returns an error exactly when some target's branch is
\* empty, contains whitespace (space, tab, newline, carriage return), contains
\* '..' or contains one of ~ ^ : ? * [ ] @ { \; it succeeds for every other
\* list, and the targets are the same after it as before.
C22_ValidateTargets ==
  \A r \in Runs :
    /\ run[r].targets = run[r].firstTargets
    /\ run[r].pc # "resolved" =>
         LET T == run[r].targets
             bad == \E k \in 1..Len(T) : Rejected(T[k].Branch)
         IN  /\ bad => (Returned(r) /\ run[r].ret.err = "validate targets")
             /\ ~bad => run[r].pc = "validated"

\* a name with several slashes was accepted, in a list of two accepted targets
C22_Witness ==
  \E r \in Runs :
    /\ run[r].pc = "validated"
    /\ Len(run[r].targets) = 2
    /\ run[r].targets[2].Branch = <<"r", "/", "v", "2", ".", "9", "/", "s">>

(***************************************************************************)
(* gh.BranchNameForCherryPick over short targets of every shape the        *)
(* sanitizer treats, and over long targets with and without options.       *)
(***************************************************************************)
MaxTargetLen == 5

MaxRepeat == 10

\* the calls of TestBranchNameForCherryPick, widened: short targets over upper
\* case, space, the separators the sanitizer trims and collapses, a
\* disallowed character and a digit, with the defaults and with the options
\* of the test; strings.Repeat("release-", n) + "v1" and a target of several
\* segments, with no options and with every combination of options
InitNaming ==
  LET TargetChars == {"R", " ", "/", "-", ".", "_", "1"}
      ShortTargets == UNION { [1..n -> TargetChars] : n \in 0..MaxTargetLen }
      Release == <<"r", "e", "l", "e", "a", "s", "e", "-">>
      Repeat(n) == [i \in 1..(n * Len(Release)) |-> Release[((i - 1) % Len(Release)) + 1]]
      LongTargets ==
        { Repeat(n) \o <<"v", "1">> : n \in 0..MaxRepeat }
          \cup { <<"r","e","l","e","a","s","e","/","v","2",".","9","/","s","e","c","u","r","i","t","y">> }
      CustomPrefix == <<"c", "u", "s", "t", "o", "m">>
      Options(p, m, h) == <<[Prefix |-> p, MaxLength |-> m, HashLength |-> h, SanitizeEmptyWith |-> <<>>]>>
      NamingOptions ==
        { <<>> } \cup { Options(p, m, h) : p \in { <<>>, CustomPrefix }, m \in {0, 10, 20, 40}, h \in {0, 6, 12} }
      NamerCalls ==
        { [target |-> t, pr |-> PRNumber, opts |-> o, name |-> <<>>] :
            t \in ShortTargets, o \in { <<>>, Options(CustomPrefix, 40, 6) } }
          \cup { [target |-> t, pr |-> n, opts |-> o, name |-> <<>>] :
                   t \in LongTargets, n \in {5, 999}, o \in NamingOptions }
  IN  /\ namer \in NamerCalls
      /\ cfg = [LabelPrefix |-> Pfx, ConflictStrategy |-> "fail", DryRun |-> FALSE, TargetBranches |-> <<>>]
      /\ prLabels = <<>>
      /\ overlap = FALSE
      /\ prMeta = [IsMerged |-> TRUE, IsFromFork |-> FALSE, MergeSHA |-> SHA1, HeadSHA |-> SHA2, Assignees |-> <<>>]
      /\ remoteBranches = {R1, R2}
      /\ commitsOn = {}
      /\ conflictsOn = {}
      /\ remotePRs = <<>>
      /\ remoteHeads = {}
      /\ run = [r \in Runs |-> IdleRun]
      /\ log = [r \in Runs |-> <<>>]
      /\ faults = 0
      /\ removals = 0
      /\ git = NoGit

\* branch := BranchNameForCherryPick(tc.target, tc.pr, tc.opts...)
NameStep ==
  /\ namer.name = <<>>
  /\ namer' = [namer EXCEPT !.name = BranchNameForCherryPickOpts(namer.target, namer.pr, namer.opts)]
  /\ UNCHANGED <<cfg, overlap, prMeta, prLabels, remoteBranches, commitsOn, conflictsOn,
                 remotePRs, remoteHeads, run, log, faults, removals, git>>

SpecNaming == InitNaming /\ [][NameStep]_vars

\* C23: the name BranchNameForCherryPick returns is no longer than the
\* configured maximum length, for every target, number and options. The code
\* gives the target segment at least one character whatever the prefix and
\* the number leave of the maximum.
C23_NameWithinMaxLength ==
  namer.name # <<>> => Len(namer.name) <= MergeOptions(namer.opts).MaxLength

\* segment seg is lower case, of the characters [a-z0-9._/-] only, neither
\* begins nor ends with '-', '/' or '.', and repeats neither '-' nor '/'
CleanSegment(seg) ==
  /\ seg # <<>>
  /\ \A i \in 1..Len(seg) :
       seg[i] \in SeqRange(LowerLetters) \cup SeqRange(Digits) \cup {".", "/", "-"}
  /\ seg[1] \notin {"-", "/", "."} /\ seg[Len(seg)] \notin {"-", "/", "."}
  /\ \A i \in 1..(Len(seg) - 1) : ~(seg[i] = seg[i + 1] /\ seg[i] \in {"-", "/"})

MaxNetworkRetries == 3

MaxParents == 3

\* time.Second
Second == 1000

RECURSIVE primaryGitCommand(_)
\* primaryGitCommand(args): the first argument that is not an option; the
\* options -C, --git-dir and -c take the argument after them, and what follows
\* -- is the command. An option is an argument that begins with '-'.
primaryGitCommand(args) ==
  IF args = <<>> THEN ""
  ELSE IF Head(args) = "--" THEN (IF Len(args) > 1 THEN args[2] ELSE "")
  ELSE IF Head(args) \in {"-C", "--git-dir", "-c"}
         THEN (IF Len(args) > 1 THEN primaryGitCommand(SubSeq(args, 3, Len(args))) ELSE "")
  ELSE IF Head(args) \in {"-m", "--force", "--allow-empty", "--abort", "-u"}
         THEN primaryGitCommand(Tail(args))
  ELSE Head(args)

\* isNetworkCommand(cmd)
isNetworkCommand(cmd) == cmd \in {"clone", "fetch", "push", "pull", "remote"}

\* e.networkRetriesValue() without its defaults
networkRetriesValueRaw(e) == e.NetworkRetries

\* e.networkRetriesValue()
networkRetriesValue(e) ==
  IF e.NetworkRetries < 0 THEN 0
  ELSE IF e.NetworkRetries = 0 THEN 2
  ELSE e.NetworkRetries

\* e.networkRetryDelayValue()
networkRetryDelayValue(e) ==
  IF e.NetworkRetryDelay <= 0 THEN Second ELSE e.NetworkRetryDelay

\* applyNetworkTimeout that always hands the caller's context on
applyNetworkTimeoutInherit(e, hasDeadline, network) == 0

\* e.applyNetworkTimeout(ctx, network): the timeout of the context the attempt
\* runs under, 0 when the attempt runs under the caller's context as it is
applyNetworkTimeout(e, hasDeadline, network) ==
  LET networkTimeoutValue == IF e.NetworkTimeout <= 0 THEN 2 * 60 * Second ELSE e.NetworkTimeout
  IN  IF ~network THEN 0
      ELSE IF hasDeadline THEN 0
      ELSE networkTimeoutValue

\* isMergeCommit that takes any parent for a merge
isMergeCommitAnyParent(fields) == Len(fields) > 1

\* isMergeCommit: the fields of the output of git rev-list --parents -n 1,
\* the commit followed by its parents, are more than two
isMergeCommit(fields) == Len(fields) > 2

\* the calls of the tests, widened: runGit on network and local commands
\* with every NetworkRetries up to the bound, initial delays below, at and
\* above one second, a set and an unset NetworkTimeout, a caller's context
\* with and without a deadline, alive or already canceled, a subprocess that
\* exits or hangs; and CherryPick of commits with zero to MaxParents parents
\* and of a commit whose parents git rev-list cannot list
InitGit ==
  LET Executors ==
        [NetworkRetries : (-1)..MaxNetworkRetries,
         NetworkRetryDelay : {0, 10, Second, 3 * Second},
         NetworkTimeout : {0, 100}]
      Commands ==
        { <<"-C", "ws", "fetch", "origin", "main">>,
          <<"clone", "url", "ws">>,
          <<"-C", "ws", "push", "-u", "origin", "b">>,
          <<"-C", "ws", "checkout", "b">>,
          <<"-C", "ws", "branch", "--force", "b", "main">>,
          <<"-C", "ws", "commit", "--allow-empty", "-m", "msg">>,
          <<"-C", "ws", "config", "user.name", "bot">>,
          <<"-C", "ws", "cherry-pick", "--abort">> }
      Call(op, e, args, parents, hasDeadline, ctx, hang) ==
        [op |-> op, e |-> e, args |-> args, parents |-> parents,
         hasDeadline |-> hasDeadline, ctx |-> ctx, hang |-> hang,
         pc |-> IF op = "runGit" THEN "attempt" ELSE "call",
         attempt |-> 0, delay |-> networkRetryDelayValue(e), bound |-> 0,
         started |-> 0, errs |-> <<>>, waits |-> <<>>, ret |-> "none"]
      GitCalls ==
        { Call("runGit", e, args, 0, d, ctx, hang) :
            e \in Executors, args \in Commands, d \in BOOLEAN,
            ctx \in {"", "canceled"}, hang \in BOOLEAN }
          \cup { Call("CherryPick", e, <<>>, n, FALSE, "", FALSE) :
                   e \in { x \in Executors : x.NetworkRetryDelay = 0 /\ x.NetworkTimeout = 0 },
                   n \in (-1)..MaxParents }
  IN  /\ git \in GitCalls
      /\ namer = NoCall
      /\ cfg = [LabelPrefix |-> Pfx, ConflictStrategy |-> "fail", DryRun |-> FALSE, TargetBranches |-> <<>>]
      /\ prLabels = <<>>
      /\ overlap = FALSE
      /\ prMeta = [IsMerged |-> TRUE, IsFromFork |-> FALSE, MergeSHA |-> SHA1, HeadSHA |-> SHA2, Assignees |-> <<>>]
      /\ remoteBranches = {R1, R2}
      /\ commitsOn = {}
      /\ conflictsOn = {}
      /\ remotePRs = <<>>
      /\ remoteHeads = {}
      /\ run = [r \in Runs |-> IdleRun]
      /\ log = [r \in Runs |-> <<>>]
      /\ faults = 0
      /\ removals = 0

\* shellWorkspace.CherryPick(ctx, commit) up to its call of runGit
WorkspaceCherryPick ==
  /\ git.pc = "call"
  /\ LET fields == <<"commit">> \o [i \in 1..git.parents |-> "parent"]
         mainline == IF isMergeCommit(fields) THEN <<"-m", "1">> ELSE <<>>
     IN  git' = IF git.parents < 0
                  THEN [git EXCEPT !.pc = "returned", !.ret = "git"]
                  ELSE [git EXCEPT !.pc = "attempt",
                                   !.args = <<"-C", "ws", "cherry-pick">> \o mainline \o <<"commit">>]
  /\ UNCHANGED <<cfg, overlap, prMeta, prLabels, remoteBranches, commitsOn, conflictsOn,
                 remotePRs, remoteHeads, run, log, faults, removals, namer>>

\* runGit from the error of an attempt to the return or to the wait before
\* the next attempt
runGitLoop(g, err) ==
  LET retries == IF isNetworkCommand(primaryGitCommand(g.args)) THEN networkRetriesValue(g.e) ELSE 0
      done == [g EXCEPT !.errs = Append(@, err), !.pc = "returned", !.ret = err]
  IN  IF err = "nil" THEN done
      ELSE IF ~isNetworkCommand(primaryGitCommand(g.args)) THEN done
      ELSE IF err \in {"canceled", "deadline"} THEN done
      ELSE IF g.attempt = retries THEN done
      ELSE [g EXCEPT !.errs = Append(@, err), !.pc = "waiting"]

\* one attempt: applyNetworkTimeout and runGitOnce, then the rest of the loop
\* body. cmd.Start fails at once under a context that is already done;
\* otherwise the subprocess runs until it exits, until the caller's context
\* is canceled or passes its deadline, or until the attempt's timeout passes,
\* and in the last three cases its process group is killed.
runGitOnce(outcome) ==
  /\ git.pc = "attempt"
  /\ LET timeout == applyNetworkTimeout(git.e, git.hasDeadline, isNetworkCommand(primaryGitCommand(git.args)))
         g == [git EXCEPT !.bound = timeout]
         ran == [g EXCEPT !.started = @ + 1]
     IN  CASE outcome = "start" ->
                /\ git.ctx # ""
                /\ git' = runGitLoop(g, git.ctx)
           [] outcome = "exit0" ->
                /\ git.ctx = "" /\ ~git.hang
                /\ git' = runGitLoop(ran, "nil")
           [] outcome = "exit1" ->
                /\ git.ctx = "" /\ ~git.hang
                /\ git' = runGitLoop(ran, "git")
           [] outcome = "canceled" ->
                /\ git.ctx = ""
                /\ git' = runGitLoop([ran EXCEPT !.ctx = "canceled"], "canceled")
           [] outcome = "expired" ->
                /\ git.ctx = "" /\ git.hasDeadline
                /\ git' = runGitLoop([ran EXCEPT !.ctx = "deadline"], "deadline")
           [] outcome = "timeout" ->
                /\ git.ctx = "" /\ timeout > 0
                /\ git' = runGitLoop(ran, "deadline")
  /\ UNCHANGED <<cfg, overlap, prMeta, prLabels, remoteBranches, commitsOn, conflictsOn,
                 remotePRs, remoteHeads, run, log, faults, removals, namer>>

\* the select between ctx.Done() and time.After(delay), and the doubling of
\* the delay; when both are ready either branch is taken
Backoff(branch) ==
  /\ git.pc = "waiting"
  /\ \E c \in {git.ctx} \cup (IF git.ctx # "" THEN {}
                              ELSE {"canceled"} \cup (IF git.hasDeadline THEN {"deadline"} ELSE {})) :
       CASE branch = "done" ->
              /\ c # ""
              /\ git' = [git EXCEPT !.ctx = c, !.pc = "returned", !.ret = c]
         [] branch = "timer" ->
              git' = [git EXCEPT !.ctx = c, !.pc = "attempt",
                                 !.waits = Append(@, git.delay),
                                 !.delay = 2 * (IF git.delay < Second THEN Second ELSE git.delay),
                                 !.attempt = @ + 1]
  /\ UNCHANGED <<cfg, overlap, prMeta, prLabels, remoteBranches, commitsOn, conflictsOn,
                 remotePRs, remoteHeads, run, log, faults, removals, namer>>

NextGit ==
  \/ WorkspaceCherryPick
  \/ \E outcome \in {"start", "exit0", "exit1", "canceled", "expired", "timeout"} : runGitOnce(outcome)
  \/ \E branch \in {"done", "timer"} : Backoff(branch)

SpecGit == InitGit /\ [][NextGit]_vars

\* the timers of the runtime fire and a step of the executor that waits for
\* nothing is taken; whether the subprocess exits and whether the caller
\* cancels is left open
FairGit ==
  /\ SpecGit
  /\ WF_vars(runGitOnce("timeout"))
  /\ WF_vars(runGitOnce("start"))
  /\ WF_vars(Backoff("timer"))
  /\ WF_vars(WorkspaceCherryPick)

\* the command of the call and whether it is one of clone, fetch and push
GitCommand == primaryGitCommand(git.args)

\* C25: runGit makes at most retries+1 attempts of clone, fetch and push,
\* retries being NetworkRetries, 2 when that is zero and 0 when it is
\* negative; it returns nil at the first attempt that succeeds, so after k
\* failures and a success there were exactly k+1 attempts; it returns the
\* last error once every attempt of the budget failed; and a command that is
\* not a network command is attempted exactly once.
C25_RetryBudget ==
  git.pc # "idle" =>
    LET retries == IF git.e.NetworkRetries < 0 THEN 0
                   ELSE IF git.e.NetworkRetries = 0 THEN 2 ELSE git.e.NetworkRetries
        n == Len(git.errs)
        Transient(k) == \A i \in 1..k : git.errs[i] = "git"
    IN  /\ GitCommand \in {"clone", "fetch", "push"} =>
             /\ n <= retries + 1
             /\ git.pc = "waiting" => (n <= retries /\ Transient(n))
             /\ (git.pc = "returned" /\ git.ret = "nil") =>
                  (n >= 1 /\ git.errs[n] = "nil" /\ Transient(n - 1) /\ n - 1 <= retries)
             /\ (git.pc = "returned" /\ git.ret = "git") =>
                  (n = retries + 1 /\ Transient(n))
        /\ \A i \in 1..(n - 1) : git.errs[i] # "nil"
        /\ (git.pc = "returned" /\ git.op = "runGit"
              /\ GitCommand \in {"checkout", "branch", "commit", "cherry-pick", "config"}) =>
             (n = 1 /\ git.ret = git.errs[1])

\* git fetch with NetworkRetries 2 failed twice and succeeded at the third attempt
C25_Witness ==
  /\ git.pc = "returned"
  /\ GitCommand = "fetch"
  /\ git.e.NetworkRetries = 2
  /\ git.errs = <<"git", "git", "nil">>
  /\ git.ret = "nil"

\* C26: when runGit has returned after a failed attempt of a network command
\* with retries left, the caller's context is canceled or past its deadline;
\* and when it has returned with that context canceled or expired, what it
\* returned is the error of the context.
C26_RetryUnlessContextDone ==
  (git.pc = "returned" /\ git.op = "runGit" /\ isNetworkCommand(GitCommand)) =>
    LET n == Len(git.errs)
    IN  /\ (n >= 1 /\ git.errs[n] # "nil" /\ n <= networkRetriesValue(git.e)) => git.ctx # ""
        /\ git.ctx # "" => git.ret = git.ctx

\* C27: the first wait between attempts is the configured NetworkRetryDelay,
\* one second when that is unset, and every later wait is twice the wait
\* before it.
C27_ExponentialBackoff ==
  git.pc # "idle" =>
    LET initial == IF git.e.NetworkRetryDelay <= 0 THEN Second ELSE git.e.NetworkRetryDelay
    IN  /\ git.waits # <<>> => git.waits[1] = initial
        /\ \A i \in 1..(Len(git.waits) - 1) : git.waits[i + 1] = 2 * git.waits[i]

\* C28: every attempt of clone, fetch or push under a caller's context without
\* deadline runs under a timeout of NetworkTimeout, two minutes when that is
\* unset; and such a command whose subprocess never exits leads to the return
\* of runGit, with the deadline-exceeded error unless the caller canceled.
C28_BoundedNetworkOperation ==
  /\ [](( /\ git.pc # "idle"
          /\ GitCommand \in {"clone", "fetch", "push"}
          /\ ~git.hasDeadline
          /\ git.started > 0 ) =>
           git.bound = IF git.e.NetworkTimeout <= 0 THEN 2 * 60 * Second ELSE git.e.NetworkTimeout)
  /\ ( /\ git.pc # "idle"
       /\ GitCommand \in {"clone", "fetch", "push"}
       /\ ~git.hasDeadline
       /\ git.hang )
       ~> ( /\ git.pc = "returned"
            /\ git.ctx = "" => git.ret = "deadline" )

\* a fetch without deadline whose subprocess hung was ended by the default
\* timeout of two minutes
C28_Witness ==
  /\ git.pc = "returned"
  /\ GitCommand = "fetch"
  /\ ~git.hasDeadline /\ git.hang /\ git.ctx = ""
  /\ git.e.NetworkTimeout = 0
  /\ git.started = 1
  /\ git.bound = 2 * 60 * Second
  /\ git.ret = "deadline"

\* C29: CherryPick runs git cherry-pick with -m 1 exactly when the commit has
\* more than one parent and without it otherwise; when the parents cannot be
\* listed it returns an error and starts no cherry-pick.
C29_MainlineForMergeCommits ==
  (git.pc # "idle" /\ git.op = "CherryPick" /\ git.pc # "call") =>
    IF git.parents < 0
      THEN /\ git.pc = "returned" /\ git.ret = "git"
           /\ git.args = <<>> /\ git.started = 0 /\ git.errs = <<>>
      ELSE /\ GitCommand = "cherry-pick"
           /\ git.args[Len(git.args)] = "commit"
           /\ (\E i \in 1..(Len(git.args) - 1) : git.args[i] = "-m" /\ git.args[i + 1] = "1")
                <=> git.parents > 1
           /\ git.parents <= 1 => git.args = <<"-C", "ws", "cherry-pick", "commit">>

\* a commit with two parents was cherry-picked with -m 1
C29_Witness ==
  /\ git.pc = "returned"
  /\ git.op = "CherryPick"
  /\ git.parents = 2
  /\ git.args = <<"-C", "ws", "cherry-pick", "-m", "1", "commit">>
  /\ git.ret = "nil"

\* label begins with prefix, letter case aside
StartsWithFold(label, prefix) ==
  /\ Len(label) >= Len(prefix)
  /\ ToLower(SubSeq(label, 1, Len(prefix))) = ToLower(prefix)

\* C30: the pull request a run opens for the target T it is executing has
\* head BranchNameForCherryPick(T, N), base T, the title '[T] <source title>'
\* and a body that holds the marker of Owner/Repo#N -> T; when the whole
\* request went through it has the assignees of the source pull request and,
\* as labels, the labels the run read from the source pull request that do
\* not begin with the label prefix, in their order.
C30_CreateRequestFields ==
  [][\A r \in Runs :
       (Len(remotePRs') = Len(remotePRs) + 1 /\ remotePRs'[Len(remotePRs')].by = r) =>
         LET pr == remotePRs'[Len(remotePRs')]
             T == ExecBranch(run[r])
             marker == [part |-> "cherry-pick-of", source |-> <<Owner, Repo>>,
                        number |-> PRNumber, branch |-> T, text |-> ""]
             Kept(label) == ~StartsWithFold(label, cfg.LabelPrefix)
         IN  /\ pr.Head = BranchNameForCherryPick(T, PRNumber)
             /\ pr.Base = T
             /\ pr.Title = [branch |-> T, title |-> "source title"]
             /\ \E k \in 1..Len(pr.Body) : pr.Body[k] = marker
             /\ run'[r].cur.Status \in {TargetStatusSucceeded, TargetStatusPlaceholderPR} =>
                  /\ pr.Assignees = prMeta.Assignees
                  /\ pr.Labels = SelectSeq(run[r].Labels, Kept)]_vars

\* the pull request for r1 was opened with the assignee and with the label
\* bug alone of the source labels cp/r1, bug, cp/r2
C30_Witness ==
  \E k \in 1..Len(remotePRs) :
    /\ remotePRs[k].Base = R1
    /\ remotePRs[k].Head = BranchNameForCherryPick(R1, PRNumber)
    /\ remotePRs[k].Labels = <<LblBug>>
    /\ remotePRs[k].Assignees = <<"alice">>
    /\ cfg.LabelPrefix = Pfx

(***************************************************************************)
(* classifyGitHubError and IsRetryable.  An error is the chain errors.As   *)
(* and errors.Is walk, outermost link first; nil is the empty chain.       *)
(***************************************************************************)
MaxWraps == 2

\* isRetryableGitHubError that leaves out 429 Too Many Requests
isRetryableGitHubErrorServerOnly(err) ==
  LET As(type) == { i \in 1..Len(err) : err[i].type = type }
      First(type) == err[CHOOSE i \in As(type) : \A j \in As(type) : i <= j]
  IN  /\ err # <<>>
      /\ \/ As("RateLimitError") # {}
         \/ As("AbuseRateLimitError") # {}
         \/ As("AcceptedError") # {}
         \/ /\ As("ErrorResponse") # {}
            /\ First("ErrorResponse").code # 0
            /\ First("ErrorResponse").code >= 500 /\ First("ErrorResponse").code <= 599
         \/ /\ As("netError") # {}
            /\ First("netError").timeout

\* isRetryableGitHubError; errors.As finds the first link of the type, code 0
\* is an ErrorResponse without Response
isRetryableGitHubError(err) ==
  LET As(type) == { i \in 1..Len(err) : err[i].type = type }
      First(type) == err[CHOOSE i \in As(type) : \A j \in As(type) : i <= j]
  IN  /\ err # <<>>
      /\ \/ As("RateLimitError") # {}
         \/ As("AbuseRateLimitError") # {}
         \/ As("AcceptedError") # {}
         \/ /\ As("ErrorResponse") # {}
            /\ First("ErrorResponse").code # 0
            /\ \/ First("ErrorResponse").code = 429
               \/ First("ErrorResponse").code >= 500 /\ First("ErrorResponse").code <= 599
         \/ /\ As("netError") # {}
            /\ First("netError").timeout

\* classifyGitHubError
classifyGitHubError(err) ==
  IF err = <<>> THEN <<>>
  ELSE IF isRetryableGitHubError(err)
         THEN <<[type |-> "retryableError", code |-> 0, timeout |-> FALSE]>> \o err
  ELSE err

\* IsRetryable
IsRetryable(err) == err # <<>> /\ \E i \in 1..Len(err) : err[i].type = "retryableError"

\* the errors of the tests, widened: nil, and each kind of error the GitHub
\* client returns, response codes on both sides of 429 and of 500..599,
\* bare or wrapped up to MaxWraps times with fmt.Errorf("...: %w")
InitClassify ==
  LET Link(type, code, timeout) == [type |-> type, code |-> code, timeout |-> timeout]
      Codes == {0, 200, 400, 403, 404, 422, 428, 429, 430, 499, 500, 502, 503, 599, 600}
      Errors ==
        { Link(type, 0, FALSE) : type \in {"RateLimitError", "AbuseRateLimitError", "AcceptedError", "errorString"} }
          \cup { Link("ErrorResponse", code, FALSE) : code \in Codes }
          \cup { Link("netError", 0, timeout) : timeout \in BOOLEAN }
      Wrapped(n) == [i \in 1..n |-> Link("wrapError", 0, FALSE)]
      Chains == { <<>> } \cup { Wrapped(n) \o <<e>> : n \in 0..MaxWraps, e \in Errors }
  IN  /\ namer \in { [fn |-> "classifyGitHubError", err |-> err, out |-> <<>>, returned |-> FALSE] : err \in Chains }
      /\ git = NoGit
      /\ cfg = [LabelPrefix |-> Pfx, ConflictStrategy |-> "fail", DryRun |-> FALSE, TargetBranches |-> <<>>]
      /\ prLabels = <<>>
      /\ overlap = FALSE
      /\ prMeta = [IsMerged |-> TRUE, IsFromFork |-> FALSE, MergeSHA |-> SHA1, HeadSHA |-> SHA2, Assignees |-> <<>>]
      /\ remoteBranches = {R1, R2}
      /\ commitsOn = {}
      /\ conflictsOn = {}
      /\ remotePRs = <<>>
      /\ remoteHeads = {}
      /\ run = [r \in Runs |-> IdleRun]
      /\ log = [r \in Runs |-> <<>>]
      /\ faults = 0
      /\ removals = 0

\* err := classifyGitHubError(original)
ClassifyStep ==
  /\ ~namer.returned
  /\ namer' = [namer EXCEPT !.out = classifyGitHubError(namer.err), !.returned = TRUE]
  /\ UNCHANGED <<cfg, overlap, prMeta, prLabels, remoteBranches, commitsOn, conflictsOn,
                 remotePRs, remoteHeads, run, log, faults, removals, git>>

SpecClassify == InitClassify /\ [][ClassifyStep]_vars

\* C31: classifyGitHubError returns nil for nil; what it returns is retryable
\* exactly when the error is a rate-limit, abuse-rate-limit or accepted
\* error, a response with status 429 or 500..599, or a network error that
\* timed out; any other error is returned as it is; and the original error
\* is in the chain of what is returned.
C31_ClassifyGitHubError ==
  namer.returned =>
    LET err == namer.err
        out == namer.out
        cause == err[Len(err)]
        Transient ==
          \/ cause.type \in {"RateLimitError", "AbuseRateLimitError", "AcceptedError"}
          \/ cause.type = "ErrorResponse" /\ (cause.code = 429 \/ cause.code \in 500..599)
          \/ cause.type = "netError" /\ cause.timeout
    IN  IF err = <<>> THEN out = <<>>
        ELSE /\ IsRetryable(out) <=> Transient
             /\ ~Transient => out = err
             /\ \E i \in 1..Len(out) : SubSeq(out, i, Len(out)) = err

\* a wrapped 429 response came back marked retryable, the original inside it
C31_Witness ==
  /\ namer.returned
  /\ Len(namer.err) = 2
  /\ namer.err[2].type = "ErrorResponse" /\ namer.err[2].code = 429
  /\ IsRetryable(namer.out)
  /\ Tail(namer.out) = namer.err

(***************************************************************************)
(* The refs of a workspace through the first steps of executeTarget.  T is *)
(* the target branch and B the cherry-pick branch; a ref is the commit it  *)
(* points at, "none" when it does not exist.  o says which git commands    *)
(* are free of a failure of their own.                                     *)
(***************************************************************************)

\* shellWorkspace.CheckoutBranch(ctx, branch)
shellCheckoutBranch(ws, branch, o) ==
  LET fetched == o.fetch /\ ws.remote[branch] # "none"
      missing == o.fetch /\ ws.remote[branch] = "none"
      w1 == IF fetched
              THEN [ws EXCEPT !.tracking[branch] = ws.remote[branch], !.cmds = Append(@, <<"fetch", branch>>)]
              ELSE [ws EXCEPT !.cmds = Append(@, <<"fetch", branch>>)]
      w2 == [w1 EXCEPT !.cmds = Append(@, <<"checkout -B", branch>>)]
      w3 == [(IF fetched THEN w2 ELSE w1) EXCEPT !.cmds = Append(@, <<"checkout", branch>>)]
      plain == o.plain /\ (w3.local[branch] # "none" \/ w3.tracking[branch] # "none")
      w4 == [w3 EXCEPT !.cmds = Append(@, <<"checkout -b", branch>>)]
      created == o.created /\ w4.local[branch] = "none"
  IN  IF ~fetched /\ ~missing THEN [w1 EXCEPT !.err = "git fetch"]
      ELSE IF fetched /\ o.forced
             THEN [w2 EXCEPT !.local[branch] = w2.tracking[branch], !.head = branch]
      ELSE IF plain
             THEN [w3 EXCEPT !.local[branch] = IF @ # "none" THEN @ ELSE w3.tracking[branch],
                             !.head = branch]
      ELSE IF fetched /\ created
             THEN [w4 EXCEPT !.local[branch] = w4.tracking[branch], !.head = branch]
      ELSE [(IF fetched THEN w4 ELSE w3) EXCEPT !.err = "git checkout failed"]

\* shellWorkspace.CreateBranchFrom(ctx, branch, from)
shellCreateBranchFrom(ws, branch, from, o) ==
  LET fetched == o.fetch /\ ws.remote[from] # "none"
      w1 == IF fetched
              THEN [ws EXCEPT !.tracking[from] = ws.remote[from], !.cmds = Append(@, <<"fetch", from>>)]
              ELSE [ws EXCEPT !.cmds = Append(@, <<"fetch", from>>)]
      w2 == [w1 EXCEPT !.cmds = Append(@, <<"branch --force", branch>>)]
  IN  IF ~fetched THEN [w1 EXCEPT !.err = "git fetch"]
      ELSE IF o.forced /\ w2.head # branch
             THEN [w2 EXCEPT !.local[branch] = w2.tracking[from]]
      ELSE [w2 EXCEPT !.err = "git branch"]

\* a workspace as Prepare leaves it: the clone holds a remote-tracking ref for
\* every branch the remote had and a local branch only for the default
\* branch. The remote had the target branch, and possibly the cherry-pick
\* branch, left by an earlier run that pushed and then failed; since the
\* clone the target branch may have been deleted and the cherry-pick branch
\* deleted or pushed.
InitWorkspace ==
  /\ git \in { [op |-> "executeTarget", pc |-> "CheckoutTarget",
                remote |-> [T |-> target, B |-> stale],
                tracking |-> [T |-> "tip", B |-> cloned],
                local |-> [T |-> IF default THEN "tip" ELSE "none", B |-> "none"],
                head |-> IF default THEN "T" ELSE "none",
                cmds |-> <<>>, err |-> "", reason |-> ""] :
               target \in {"tip", "none"}, stale \in {"none", "stale"},
               cloned \in {"none", "stale"}, default \in BOOLEAN }
  /\ namer = NoCall
  /\ cfg = [LabelPrefix |-> Pfx, ConflictStrategy |-> "fail", DryRun |-> FALSE, TargetBranches |-> <<>>]
  /\ prLabels = <<>>
  /\ overlap = FALSE
  /\ prMeta = [IsMerged |-> TRUE, IsFromFork |-> FALSE, MergeSHA |-> SHA1, HeadSHA |-> SHA2, Assignees |-> <<>>]
  /\ remoteBranches = {R1, R2}
  /\ commitsOn = {}
  /\ conflictsOn = {}
  /\ remotePRs = <<>>
  /\ remoteHeads = {}
  /\ run = [r \in Runs |-> IdleRun]
  /\ log = [r \in Runs |-> <<>>]
  /\ faults = 0
  /\ removals = 0

\* executeTarget: CheckoutBranch(target), CreateBranchFrom(branchName, target),
\* CheckoutBranch(branchName), each ending the target at its error
WorkspaceStep ==
  /\ git.pc \in {"CheckoutTarget", "CreateBranchFrom", "CheckoutCherryPick"}
  /\ \E o \in [fetch : BOOLEAN, forced : BOOLEAN, plain : BOOLEAN, created : BOOLEAN] :
       LET ws == CASE git.pc = "CheckoutTarget" -> shellCheckoutBranch(git, "T", o)
                   [] git.pc = "CreateBranchFrom" -> shellCreateBranchFrom(git, "B", "T", o)
                   [] git.pc = "CheckoutCherryPick" -> shellCheckoutBranch(git, "B", o)
           reason == CASE git.pc = "CheckoutTarget" -> "checkout target branch"
                       [] git.pc = "CreateBranchFrom" -> "create branch"
                       [] git.pc = "CheckoutCherryPick" -> "checkout cherry-pick branch"
           next == CASE git.pc = "CheckoutTarget" -> "CreateBranchFrom"
                     [] git.pc = "CreateBranchFrom" -> "CheckoutCherryPick"
                     [] git.pc = "CheckoutCherryPick" -> "CherryPick"
       IN  git' = IF ws.err # "" THEN [ws EXCEPT !.pc = "failed", !.reason = reason]
                  ELSE [ws EXCEPT !.pc = next]
  /\ UNCHANGED <<cfg, overlap, prMeta, prLabels, remoteBranches, commitsOn, conflictsOn,
                 remotePRs, remoteHeads, run, log, faults, removals, namer>>

SpecWorkspace == InitWorkspace /\ [][WorkspaceStep]_vars

\* C32: once the cherry-pick branch is created and checked out, HEAD is the
\* cherry-pick branch and it points at the tip of the target branch, whether
\* or not a branch of that name was on the remote already.
C32_CherryPickFromTargetTip ==
  (git.pc = "CherryPick" /\ git.op = "executeTarget") =>
    (git.head = "B" /\ git.local["B"] = git.remote["T"])

(***************************************************************************)
(* Done labels and the targets of a run                                    *)
(***************************************************************************)

\* the labels of a list that are not done labels "<prefix>done/<branch>"
WithoutDoneLabels(labels) ==
  LET NotDone(l) == ~HasPrefix(l, DoneLabel(cfg.LabelPrefix, <<>>))
  IN  SelectSeq(labels, NotDone)

\* C33: done labels never become targets: the targets a run resolves are the
\* targets of its labels without the done labels, and while nobody removes a
\* label a later run resolves the same branches as an earlier one.
C33_DoneLabelsNeverTargets ==
  /\ \A r \in Runs :
       Resolved(r) =>
         BranchesOf(run[r].targets) = BranchesOf(Resolve(WithoutDoneLabels(run[r].Labels)).targets)
  /\ \A q, r \in Runs :
       (q < r /\ Resolved(q) /\ Resolved(r) /\ removals = 0) =>
         BranchesOf(run[r].targets) = BranchesOf(run[q].targets)

(***************************************************************************)
(* The cherry-pick branches of the targets of one run                      *)
(***************************************************************************)

MaxPairLen == 2

\* one source pull request with two cherry-pick labels: the targets are what
\* labels.CollectTargets resolves from them, kept when they are two and pass
\* labels.ValidateTargets; executeTarget has named no branch yet
InitPairs ==
  LET BranchChars == {"R", "r", "_", "-", "/"}
      Branches == UNION { [1..n -> BranchChars] : n \in 1..MaxPairLen }
      Resolutions == { CollectTargets(<<Pfx \o a, Pfx \o b>>, Pfx) : a, b \in Branches }
      Plans == { res.targets : res \in { c \in Resolutions :
                   c.err = "" /\ Len(c.targets) = 2 /\ ValidateTargets(c.targets) = "" } }
  IN  /\ namer \in { [targets |-> p, pr |-> PRNumber, names |-> <<>>] : p \in Plans }
      /\ cfg = [LabelPrefix |-> Pfx, ConflictStrategy |-> "fail", DryRun |-> FALSE, TargetBranches |-> <<>>]
      /\ prLabels = <<>>
      /\ overlap = FALSE
      /\ prMeta = [IsMerged |-> TRUE, IsFromFork |-> FALSE, MergeSHA |-> SHA1, HeadSHA |-> SHA2, Assignees |-> <<>>]
      /\ remoteBranches = {R1, R2}
      /\ commitsOn = {}
      /\ conflictsOn = {}
      /\ remotePRs = <<>>
      /\ remoteHeads = {}
      /\ run = [r \in Runs |-> IdleRun]
      /\ log = [r \in Runs |-> <<>>]
      /\ faults = 0
      /\ removals = 0
      /\ git = NoGit

\* executeTarget: branchName := gh.BranchNameForCherryPick(target.Target.Branch, pr.Number),
\* for the next target of the plan
NamePairStep ==
  /\ Len(namer.names) < Len(namer.targets)
  /\ namer' = [namer EXCEPT !.names =
                 Append(@, BranchNameForCherryPick(namer.targets[Len(namer.names) + 1].Branch, namer.pr))]
  /\ UNCHANGED <<cfg, overlap, prMeta, prLabels, remoteBranches, commitsOn, conflictsOn,
                 remotePRs, remoteHeads, run, log, faults, removals, git>>

SpecPairs == InitPairs /\ [][NamePairStep]_vars

\* C34: two different target branches of one source pull request that both
\* pass ValidateTargets get different cherry-pick branch names.
C34_DistinctBranchNames ==
  Len(namer.names) = 2 =>
    (namer.targets[1].Branch # namer.targets[2].Branch => namer.names[1] # namer.names[2])

(***************************************************************************)
(* The statuses a run reports and the pull requests it opened              *)
(***************************************************************************)

\* the pull requests run r opened on the remote for target branch b
OpenedBy(r, b) == { k \in 1..Len(remotePRs) : remotePRs[k].by = r /\ remotePRs[k].Base = b }

\* C35: at the end of a run a pull request was opened on the remote for a
\* target during the run exactly when the target's status is succeeded or
\* placeholder_pr, also when adding labels or assignees to the new pull
\* request failed.
C35_StatusMatchesRemote ==
  \A r \in Runs :
    Reported(r) =>
      \A k \in Results(r) :
        LET res == run[r].ret.Targets[k]
        IN  (OpenedBy(r, res.Target.Branch) # {})
              <=> (res.Status \in {TargetStatusSucceeded, TargetStatusPlaceholderPR})

(***************************************************************************)
(* The order of the operations of executeTarget                            *)
(***************************************************************************)

\* the steps of executeTarget and finalizeCherryPickSuccess, in order
ExecutionOps ==
  <<"Prepare", "CheckoutBranch", "CreateBranchFrom", "CheckoutBranch", "CherryPick",
    "PushBranch", "CreatePullRequest", "AddLabel">>

\* the phase each of these steps puts in the reason when it fails
ExecutionReasons ==
  <<"prepare workspace", "checkout target branch", "create branch",
    "checkout cherry-pick branch", "cherry-pick commit", "push cherry-pick branch",
    "create pull request">>

\* the steps of handlePlaceholderConflict, which follow a failed CherryPick
PlaceholderTail == <<"CommitAllowEmpty", "PushBranch", "CreatePullRequest", "AddLabel">>

PlaceholderReasons ==
  <<"placeholder commit failed after conflict", "push placeholder branch failed after conflict",
    "create placeholder pull request failed">>

IsPrefix(s, t) == Len(s) <= Len(t) /\ SubSeq(t, 1, Len(s)) = s

\* the calls run r made to execute target b, without the best-effort
\* AbortCherryPick and Cleanup
ExecCalls(r, b) ==
  LET Mine(e) == e.target = b /\ e.op \notin (EvalOps \cup {"AbortCherryPick", "Cleanup"})
  IN  SelectSeq(log[r], Mine)

\* run r returned target b failed with a reason that names phase
FailedAt(r, b, phase) ==
  \E k \in Results(r) :
    /\ run[r].ret.Targets[k].Target.Branch = b
    /\ run[r].ret.Targets[k].Status = TargetStatusFailed
    /\ run[r].ret.Targets[k].Reason.msg = phase

\* every CreatePullRequest of calls directly follows a PushBranch that succeeded
PushedBeforeCreate(calls) ==
  \A j \in 1..Len(calls) :
    calls[j].op = "CreatePullRequest" =>
      (j > 1 /\ calls[j - 1].op = "PushBranch" /\ calls[j - 1].ok)

\* C36 as stated: the operations performed for one target (the best-effort
\* AbortCherryPick and Cleanup left aside) are a prefix of Prepare,
\* CheckoutBranch, CreateBranchFrom, CheckoutBranch, CherryPick, PushBranch,
\* CreatePullRequest, AddLabel; a step before AddLabel that fails is the last
\* one and the target is returned failed with the reason of that step;
\* CreatePullRequest is only called after a PushBranch that succeeded.
C36_FixedExecutionOrder ==
  \A r \in Runs : \A b \in Processed(r) :
    LET calls == ExecCalls(r, b)
    IN  /\ IsPrefix(OpsOf(calls), ExecutionOps)
        /\ \A j \in 1..Len(calls) :
             (~calls[j].ok /\ calls[j].op # "AddLabel") =>
               /\ j = Len(calls)
               /\ Reported(r) => FailedAt(r, b, ExecutionReasons[j])
        /\ PushedBeforeCreate(calls)

\* C36, amended: as above with the strategy fail; with the strategy
\* placeholder-pr a failed CherryPick is followed by a prefix of
\* CommitAllowEmpty, PushBranch, CreatePullRequest, AddLabel, whose first
\* failing step before AddLabel is the last one and gives the status failed
\* with the reason of that placeholder step; a returned run never left the
\* target at the failed CherryPick.
C36_ExecutionOrder ==
  \A r \in Runs : \A b \in Processed(r) :
    LET calls == ExecCalls(r, b)
        placeholder ==
          /\ cfg.ConflictStrategy = conflictStrategyPlaceholderPR
          /\ Len(calls) >= 5
          /\ ~calls[5].ok
        Reason(j) == IF placeholder /\ j > 5 THEN PlaceholderReasons[j - 5] ELSE ExecutionReasons[j]
    IN  /\ IF placeholder
           THEN IsPrefix(OpsOf(calls), SubSeq(ExecutionOps, 1, 5) \o PlaceholderTail)
           ELSE IsPrefix(OpsOf(calls), ExecutionOps)
        /\ \A j \in 1..Len(calls) :
             (~calls[j].ok /\ calls[j].op # "AddLabel" /\ ~(placeholder /\ j = 5)) =>
               /\ j = Len(calls)
               /\ Reported(r) => FailedAt(r, b, Reason(j))
        /\ ~(placeholder /\ Reported(r) /\ Len(calls) = 5)
        /\ PushedBeforeCreate(calls)

\* a run returned r1 failed at the push of the clean cherry-pick, and opened no pull request
C36_Witness ==
  \E r \in Runs :
    /\ Reported(r)
    /\ OpsOf(ExecCalls(r, R1)) = SubSeq(ExecutionOps, 1, 6)
    /\ ~ExecCalls(r, R1)[6].ok
    /\ FailedAt(r, R1, "push cherry-pick branch")

(***************************************************************************)
(* Error returns of ProcessPullRequest                                     *)
(***************************************************************************)

\* the operations that change the workspace or the remote
MutatingOps == WorkspaceOps \cup {"CreatePullRequest", "AddLabel"}

\* C37: a run whose ProcessPullRequest returned a non-nil error has performed
\* no mutating operation: it made no call on the workspace, no
\* CreatePullRequest and no AddLabel, and opened no pull request.
C37_ErrorMeansUnchanged ==
  \A r \in Runs :
    (Returned(r) /\ run[r].ret.err # "") =>
      /\ \A p \in 1..Len(log[r]) : log[r][p].op \notin MutatingOps
      /\ \A k \in 1..Len(remotePRs) : remotePRs[k].by # r

\* a run found its first target pending and returned an error from the
\* evaluation of its second target
C37_Witness ==
  \E r \in Runs :
    /\ Returned(r)
    /\ run[r].ret.err \in {"ensure branch", "list cherry-pick prs", "check commit"}
    /\ Len(run[r].plan) = 1
    /\ run[r].plan[1].Status = TargetStatusPending
    /\ EvaluationError(r)

(***************************************************************************)
(* A failed check of the done label                                        *)
(***************************************************************************)

\* C38: after HasLabel returned an error for a target, the run goes on with
\* EnsureBranchExists for that target: it neither returns nor skips the
\* target for its done label, and what evaluateTargets decides for the target
\* is what it decides when the label is absent.
C38_HasLabelErrorTolerated ==
  \A r \in Runs : \A p \in 1..Len(log[r]) :
    LET b == log[r][p].target
        Decided == { k \in 1..Len(EvalPlan(r)) : EvalPlan(r)[k].Target.Branch = b }
    IN  (log[r][p].op = "HasLabel" /\ ~log[r][p].ok) =>
          /\ IF p = Len(log[r])
             THEN /\ run[r].pc = "EnsureBranchExists"
                  /\ EvalTarget(run[r]).Branch = b
                  /\ Decided = {}
             ELSE /\ log[r][p + 1].op = "EnsureBranchExists"
                  /\ log[r][p + 1].target = b
          /\ \A k \in Decided :
               /\ EvalPlan(r)[k].Reason # DoneReason(b)
               /\ Fresh(r) => EvalPlan(r)[k] = Expected(r, b, FALSE)

\* the pull request the run fetched carries the done label of r1, HasLabel
\* failed for r1, and the run cherry-picked to r1
C38_Witness ==
  \E r \in Runs :
    /\ Reported(r)
    /\ \E k \in 1..Len(run[r].Labels) : run[r].Labels[k] = DoneLabel(cfg.LabelPrefix, R1)
    /\ Calls(r, "HasLabel", R1) # <<>>
    /\ ~Calls(r, "HasLabel", R1)[1].ok
    /\ \E k \in Results(r) :
         /\ run[r].ret.Targets[k].Target.Branch = R1
         /\ run[r].ret.Targets[k].Status = TargetStatusSucceeded

(***************************************************************************)
(* The best-effort steps: AbortCherryPick, Cleanup and AddLabel            *)
(***************************************************************************)

BestEffortOps == {"AbortCherryPick", "Cleanup", "AddLabel"}

\* a step in which run r makes a best-effort call leaves the result of the
\* target as it was decided before the call, whatever the call returns
BestEffortStep(r) ==
  LET rr == run[r]
      new == run'[r]
      e == log'[r][Len(log'[r])]
  IN  (Len(log'[r]) = Len(log[r]) + 1 /\ e.op \in BestEffortOps) =>
        /\ e.op = "AddLabel" =>
             /\ new.cur = rr.cur
             /\ new.plan = rr.plan
             /\ new.pc = "Cleanup"
        /\ e.op = "AbortCherryPick" =>
             /\ new.plan = rr.plan
             /\ IF cfg.ConflictStrategy = conflictStrategyPlaceholderPR
                THEN new.cur = rr.cur /\ new.pc = "CommitAllowEmpty"
                ELSE /\ new.cur = Failed(rr.cur, "cherry-pick commit", rr.sourceCommit, rr.cherryErr)
                     /\ new.pc = "Cleanup"
        /\ e.op = "Cleanup" =>
             /\ new.plan = [rr.plan EXCEPT ![rr.i] = rr.cur]
             /\ IF hasPendingTargets(new.plan)
                THEN new.pc = "Prepare" /\ new.plan[new.i].Status = TargetStatusPending
                ELSE /\ new.pc = "returned"
                     /\ new.ret.err = ""
                     /\ new.ret.Targets = new.plan

\* C39: the status, the reason and the created pull request returned for a
\* target are those decided before AbortCherryPick, Cleanup and AddLabel of
\* the done label, whether these succeed or fail, and after them the run goes
\* on with the remaining pending targets.
C39_BestEffortSteps == [][\A r \in Runs : BestEffortStep(r)]_vars

\* AddLabel failed for r1, which the run returned succeeded with its pull
\* request, and the run went on to execute r2
C39_Witness ==
  \E r \in Runs :
    /\ Reported(r)
    /\ Calls(r, "AddLabel", R1) # <<>>
    /\ ~Calls(r, "AddLabel", R1)[1].ok
    /\ Calls(r, "Prepare", R2) # <<>>
    /\ \E k \in Results(r) :
         /\ run[r].ret.Targets[k].Target.Branch = R1
         /\ run[r].ret.Targets[k].Status = TargetStatusSucceeded
         /\ run[r].ret.Targets[k].CreatedPR # NoPR

(***************************************************************************)
(* The Result of ProcessPullRequest                                        *)
(***************************************************************************)

\* C40: a Result returned with a nil error is well-formed: a skipped one has
\* a reason and no targets; any other holds one TargetResult per resolved
\* target, in the order of resolution, each with a reason and none pending.
C40_ResultWellFormed ==
  \A r \in Runs :
    (Returned(r) /\ run[r].ret.err = "") =>
      LET res == run[r].ret
      IN  IF res.Skipped
          THEN res.SkippedReason # "" /\ res.Targets = <<>>
          ELSE /\ Len(res.Targets) = Len(run[r].targets)
               /\ Len(res.Targets) > 0
               /\ \A k \in 1..Len(res.Targets) :
                    /\ res.Targets[k].Target = run[r].targets[k]
                    /\ res.Targets[k].Reason.msg # ""
                    /\ res.Targets[k].Status # TargetStatusPending
                    /\ res.Targets[k].Status \in
                         (EvaluatedStatuses \cup ExecutedStatuses \cup {TargetStatusDryRun})

\* a run returned two targets, the first skipped by evaluation and the second executed
C40_Witness ==
  \E r \in Runs :
    /\ Reported(r)
    /\ Len(run[r].ret.Targets) = 2
    /\ run[r].ret.Targets[1].Status \in (EvaluatedStatuses \ {TargetStatusPending})
    /\ run[r].ret.Targets[2].Status \in ExecutedStatuses

====
